-------------------------- MODULE CommandPoolProofs --------------------------
(***************************************************************************)
(* Theorems about the command pool, for every size of the pool, every set  *)
(* of parsing tasks and every set of frames and buffers.                   *)
(***************************************************************************)
EXTENDS CommandPool, TLAPS

\* What the tasks' local pointers are worth where the code uses them.
Holding ==
  /\ \A t \in Parsers : pc[t] \in {"fill", "payload", "split", "send"} =>
       com[t] # None /\ frame[t] # None
  /\ pc[Main] = "recycle" => bin # None
  /\ pc[Main] = "recycle2" => bin2 # None

TypeInv == TypeOK /\ Holding

LEMMA CellArithmetic ==
  /\ Slots \subseteq Nat /\ Cells \subseteq Nat /\ Slots \subseteq Cells
  /\ 0 \in Slots /\ Beyond \in Cells /\ None \notin Cells
  /\ \A i \in Slots : i + 1 \in Cells
  /\ \A i \in Slots : i + 1 < MAX_COMMANDS => i + 1 \in Slots
  /\ \A i \in Cells : NextIndex(i) \in Slots
  BY PoolAssumption DEF Slots, Cells, Beyond, NextIndex

LEMMA TimeArithmetic ==
  ASSUME now \in Nat
  PROVE  \A d \in Nat : After(d) \in Nat /\ now + d \in Nat
  BY PoolAssumption DEF After, Millis

LEMMA EmptySlotType == EmptySlot \in Slot /\ EmptySlot.data = None
  BY DEF EmptySlot, Slot, Actions, Targets

\* obtainCommand leaves the cursor inside the array or one past it.
LEMMA ObtainedType ==
  ASSUME NEW s \in Cells \cup {None}, NEW k \in Cells, comIndex \in Cells,
         Obtained(s, k)
  PROVE  k \in Cells
  OBVIOUS

LEMMA InitType == Init => TypeInv
  <1> SUFFICES ASSUME Init PROVE TypeInv
    OBVIOUS
  <1> USE DEF Init
  <1>1. slot \in [Cells -> Slot]
    BY EmptySlotType
  <1>2. now \in 0 .. Horizon /\ comIndex \in Cells /\ scan \in Slots
    BY PoolAssumption, CellArithmetic
  <1>3. pc \in [Parsers -> PC] /\ com \in [Parsers -> Cells \cup {None}]
        /\ com1 \in [Parsers -> Cells \cup {None}]
        /\ frame \in [Parsers -> Frame \cup {None}]
    BY DEF PC
  <1>4. due \in [Cells -> Nat] /\ posted \in [Cells -> Frame \cup {None}]
    OBVIOUS
  <1>5. Holding
    BY DEF Holding, Parsers
  <1>6. QED
    BY <1>1, <1>2, <1>3, <1>4, <1>5 DEF TypeInv, TypeOK

\* The steps of a parsing task keep the types.
LEMMA ObtainType ==
  ASSUME NEW t \in Tasks, TypeInv, Obtain(t)
  PROVE  TypeInv'
  <1>1. PICK f \in Frames[t], s \in Cells \cup {None}, k \in Cells :
          /\ comIndex' = k
          /\ pc' = [pc EXCEPT ![t] = IF s = None THEN Rest(t) ELSE "fill"]
          /\ com' = [com EXCEPT ![t] = s]
          /\ frame' = [frame EXCEPT ![t] = IF s = None THEN None ELSE f]
          /\ overrun' = (overrun \/ s = Beyond)
    BY DEF Obtain
  <1>2. f \in Frame /\ f # None /\ t \in Parsers
    BY PoolAssumption DEF Parsers
  <1>3. UNCHANGED <<slot, allocated, now, com1, mainVars, due, posted>>
    BY DEF Obtain
  <1>4. pc[t] = "idle"
    BY DEF Obtain
  <1>5. TypeOK'
    BY <1>1, <1>2, <1>3 DEF TypeInv, TypeOK, mainVars, Rest, PC
  <1>6. Holding'
    BY <1>1, <1>2, <1>3, <1>4 DEF TypeInv, TypeOK, Holding, mainVars, Rest, Parsers
  <1>7. QED
    BY <1>5, <1>6 DEF TypeInv

LEMMA FillType ==
  ASSUME NEW t \in Tasks, TypeInv, Fill(t)
  PROVE  TypeInv'
  <1> DEFINE f == frame[t]
             c == slot[com[t]]
  <1>1. t \in Parsers /\ com[t] \in Cells /\ f \in Frame /\ c \in Slot
    BY DEF TypeInv, TypeOK, Holding, Fill, Parsers
  <1>2. Filled(c, f) \in Slot
    BY <1>1 DEF Slot, Frame, Filled
  <1>3. slot' = [slot EXCEPT ![com[t]] = Filled(c, f)]
    BY DEF Fill
  <1>4. slot' \in [Cells -> Slot]
    BY <1>1, <1>2, <1>3 DEF TypeInv, TypeOK
  <1>5. QED
    BY <1>1, <1>4 DEF Fill, TypeInv, TypeOK, Holding, PC, parserVars, mainVars,
       history, Parsers

LEMMA RejectType ==
  ASSUME NEW t \in Tasks, TypeInv, pc[t] = "payload", Reject(t)
  PROVE  TypeInv'
  <1>1. t \in Parsers /\ com[t] \in Cells
    BY DEF TypeInv, TypeOK, Holding, Parsers
  <1>2. slot' \in [Cells -> Slot]
    BY <1>1, EmptySlotType DEF Reject, TypeInv, TypeOK
  <1>3. QED
    BY <1>1, <1>2 DEF Reject, Freed, TypeInv, TypeOK, Holding, PC, mainVars, Rest, Parsers

\* What a parse that succeeds writes into its slot.
LEMMA ArmedType ==
  ASSUME TypeInv, NEW c \in Slot, NEW f \in Frame, NEW size \in Nat,
         NEW data \in Blocks \cup {None}
  PROVE  /\ Armed(c, f, size, data) \in Slot
         /\ Armed(c, f, size, data).data = data
  <1>1. now \in Nat
    BY PoolAssumption DEF TypeInv, TypeOK
  <1>2. (IF c.delay > 0 THEN After(c.delay) ELSE c.duration) \in Nat
    BY <1>1, TimeArithmetic DEF Slot
  <1>3. (c.cond \/ (f.cond /\ (f.kind = "string" \/ size > 0))) \in BOOLEAN
    OBVIOUS
  <1>4. QED
    BY <1>2, <1>3 DEF Armed, Slot

LEMMA ParsedType ==
  ASSUME NEW t \in Tasks, TypeInv, pc[t] = "payload",
         NEW size \in Nat, NEW data \in Blocks \cup {None},
         Parsed(t, size, data), allocated' \in SUBSET Blocks
  PROVE  TypeInv'
  <1> DEFINE c == slot[com[t]]
  <1>1. t \in Parsers /\ com[t] \in Cells /\ frame[t] \in Frame /\ c \in Slot
    BY DEF TypeInv, TypeOK, Holding, Parsers
  <1>2. now \in Nat
    BY PoolAssumption DEF TypeInv, TypeOK
  <1>3. c.delay \in Nat
    BY <1>1 DEF Slot
  <1>4. Armed(c, frame[t], size, data) \in Slot
    BY <1>1, ArmedType
  <1>5. slot' = [slot EXCEPT ![com[t]] = Armed(c, frame[t], size, data)]
    BY DEF Parsed
  <1>6. slot' \in [Cells -> Slot]
    BY <1>1, <1>4, <1>5 DEF TypeInv, TypeOK
  <1>7. due' \in [Cells -> Nat]
    BY <1>1, <1>2, <1>3 DEF Parsed, TypeInv, TypeOK
  <1>8. QED
    BY <1>1, <1>6, <1>7 DEF Parsed, TypeInv, TypeOK, Holding, PC, parserVars,
       mainVars, Parsers

LEMMA SplitType ==
  ASSUME NEW t \in Tasks, TypeInv, Split(t)
  PROVE  TypeInv'
  <1> DEFINE c == slot[com[t]]
  <1>1. PICK s \in Cells \cup {None}, k \in Cells :
          /\ comIndex' = k
          /\ com1' = [com1 EXCEPT ![t] = s]
          /\ overrun' = (overrun \/ s = Beyond)
          /\ IF s = None THEN UNCHANGED <<slot, due>> ELSE HandOver(com[t], s)
    BY DEF Split
  <1>2. t \in Parsers /\ com[t] \in Cells /\ c \in Slot /\ now \in Nat
    BY PoolAssumption DEF Split, TypeInv, TypeOK, Holding, Parsers
  <1>3. slot' \in [Cells -> Slot] /\ due' \in [Cells -> Nat]
    <2>1. CASE s = None
      BY <1>1, <2>1 DEF TypeInv, TypeOK
    <2>2. CASE s \in Cells
      <3>1. s # None
        BY <2>2, CellArithmetic
      <3> DEFINE handed == [slot EXCEPT ![s] = SecondHalf(slot[s], c)]
      <3>2. SecondHalf(slot[s], c) \in Slot
        BY <1>2, <2>2 DEF SecondHalf, Slot, Actions, TypeInv, TypeOK
      <3>3. handed \in [Cells -> Slot]
        BY <2>2, <3>2 DEF TypeInv, TypeOK
      <3>4. FirstHalf(handed[com[t]]) \in Slot
        BY <1>2, <3>3 DEF FirstHalf, Slot
      <3>5. slot' = [handed EXCEPT ![com[t]] = FirstHalf(handed[com[t]])]
        BY <1>1, <3>1 DEF HandOver
      <3>6. slot' \in [Cells -> Slot]
        BY <1>2, <3>3, <3>4, <3>5
      <3>7. due' \in [Cells -> Nat]
        BY <1>1, <1>2, <2>2, <3>1 DEF HandOver, TypeInv, TypeOK
      <3>8. QED
        BY <3>6, <3>7
    <2>3. QED
      BY <2>1, <2>2
  <1>4. QED
    BY <1>1, <1>2, <1>3 DEF Split, TypeInv, TypeOK, Holding, PC, mainVars, Parsers

\* send drops the pointer it was given, or goes on with the second one.
LEMMA ReleaseType ==
  ASSUME NEW t \in Tasks, TypeInv, pc[t] = "send", Release(t),
         UNCHANGED <<scan, bin, bin2>>
  PROVE  /\ pc' \in [Parsers -> PC]
         /\ com' \in [Parsers -> Cells \cup {None}]
         /\ com1' \in [Parsers -> Cells \cup {None}]
         /\ frame' \in [Parsers -> Frame \cup {None}]
         /\ Holding'
  <1>1. t \in Parsers
    BY DEF Parsers
  <1>2. QED
    BY <1>1 DEF Release, TypeInv, TypeOK, Holding, PC, Rest

LEMMA SendType ==
  ASSUME NEW t \in Tasks, TypeInv, Send(t) \/ SendRefused(t)
  PROVE  TypeInv'
  <1>1. t \in Parsers /\ com[t] \in Cells /\ frame[t] \in Frame /\ pc[t] = "send"
    BY DEF Send, SendRefused, TypeInv, TypeOK, Holding, Parsers
  <1>2. slot' \in [Cells -> Slot]
    <2>1. slot \in [Cells -> Slot] /\ slot[com[t]] \in Slot
      BY <1>1 DEF TypeInv, TypeOK
    <2>2. [slot[com[t]] EXCEPT !.valid = TRUE] \in Slot
      BY <2>1 DEF Slot
    <2>3. \/ slot' = [slot EXCEPT ![com[t]] = [slot[com[t]] EXCEPT !.valid = TRUE]]
          \/ slot' = [slot EXCEPT ![com[t]] = EmptySlot]
      BY DEF Send, SendRefused
    <2>4. QED
      BY <1>1, <2>1, <2>2, <2>3, EmptySlotType
  <1>3. Release(t) /\ UNCHANGED <<scan, bin, bin2>>
    BY DEF Send, SendRefused, mainVars
  <1>4. allocated' \in SUBSET Blocks /\ due' \in [Cells -> Nat]
        /\ posted' \in [Cells -> Frame \cup {None}]
    BY <1>1 DEF Send, SendRefused, Freed, TypeInv, TypeOK
  <1>5. UNCHANGED <<comIndex, now, overrun>>
    BY DEF Send, SendRefused
  <1>6. QED
    BY <1>1, <1>2, <1>3, <1>4, <1>5, ReleaseType DEF TypeInv, TypeOK, mainVars

LEMMA ParseType ==
  ASSUME NEW t \in Tasks, TypeInv, Parse(t)
  PROVE  TypeInv'
  <1>1. CASE Fill(t)
    BY <1>1, FillType
  <1>2. CASE RejectShort(t) \/ RejectNoMemory(t)
    BY <1>2, RejectType DEF RejectShort, RejectNoMemory
  <1>3. CASE ParsePlain(t) \/ ParsePayload(t) \/ ParseNoMemory(t)
    <2>1. pc[t] = "payload"
      BY <1>3 DEF ParsePlain, ParsePayload, ParseNoMemory
    <2>2. com[t] \in Cells
      BY <2>1 DEF TypeInv, TypeOK, Holding, Parsers
    <2>3. slot[com[t]].size \in Nat /\ slot[com[t]].data \in Blocks \cup {None}
      BY <2>2 DEF TypeInv, TypeOK, Slot
    <2>4. allocated \in SUBSET Blocks
      BY DEF TypeInv, TypeOK
    <2>5. CASE ParsePlain(t) \/ ParseNoMemory(t)
      BY <2>1, <2>3, <2>4, <2>5, ParsedType DEF ParsePlain, ParseNoMemory
    <2>6. CASE ParsePayload(t)
      BY <2>1, <2>3, <2>4, <2>6, ParsedType DEF ParsePayload
    <2>7. QED
      BY <1>3, <2>5, <2>6
  <1>4. CASE Split(t)
    BY <1>4, SplitType
  <1>5. CASE Send(t) \/ SendRefused(t)
    BY <1>5, SendType
  <1>6. QED
    BY <1>1, <1>2, <1>3, <1>4, <1>5 DEF Parse

\* The main task's loop and recycleCommand keep the types.
LEMMA AdvanceType ==
  ASSUME TypeInv, pc[Main] \in PC \ {"fill", "payload", "split", "send"}, Advance,
         UNCHANGED <<com, com1, frame>>
  PROVE  /\ pc' \in [Parsers -> PC] /\ scan' \in Slots
         /\ Holding'
  <1>1. Main \in Parsers
    BY DEF Parsers
  <1>2. scan' \in Slots
    BY CellArithmetic DEF Advance, TypeInv, TypeOK
  <1>3. pc' \in [Parsers -> PC]
    BY <1>1 DEF Advance, TypeInv, TypeOK, PC
  <1>4. Holding'
    BY <1>1 DEF Advance, TypeInv, TypeOK, Holding
  <1>5. QED
    BY <1>2, <1>3, <1>4

LEMMA RecycleType ==
  ASSUME TypeInv, NEW i \in Slots, NEW j \in Slots \cup {None},
         StartRecycle(i, j),
         UNCHANGED <<comIndex, allocated, now, parserVars, overrun>>
  PROVE  TypeInv'
  <1>1. Main \in Parsers /\ i \in Cells /\ i # None
    BY CellArithmetic DEF Parsers
  <1>2. slot' \in [Cells -> Slot]
    <2>1. [slot[i] EXCEPT !.valid = FALSE] \in Slot
      BY <1>1 DEF TypeInv, TypeOK, Slot
    <2>2. slot' = [slot EXCEPT ![i] = [slot[i] EXCEPT !.valid = FALSE]]
      BY DEF StartRecycle, Invalidate
    <2>3. QED
      BY <1>1, <2>1, <2>2 DEF TypeInv, TypeOK
  <1>3. posted' \in [Cells -> Frame \cup {None}] /\ due' \in [Cells -> Nat]
    BY <1>1 DEF StartRecycle, Invalidate, TypeInv, TypeOK
  <1>4. pc' = [pc EXCEPT ![Main] = "recycle"] /\ bin' = i /\ bin2' = j
        /\ scan' = scan
    BY DEF StartRecycle
  <1>5. Holding'
    BY <1>1, <1>4 DEF TypeInv, TypeOK, Holding, parserVars
  <1>6. QED
    BY <1>1, <1>2, <1>3, <1>4, <1>5 DEF TypeInv, TypeOK, parserVars, PC

LEMMA RearmType ==
  ASSUME TypeInv, pc[Main] \in {"scan", "execDelayed"}, FinishDelayed
  PROVE  TypeInv'
  <1> DEFINE c == slot[scan]
  <1>1. scan \in Cells /\ c \in Slot /\ now \in Nat /\ c.delay \in Nat
    BY CellArithmetic, PoolAssumption DEF TypeInv, TypeOK, Slot
  <1>2. CASE c.interval = 0 /\ FinishInstant
    BY <1>2, RecycleType DEF FinishInstant, TypeInv, TypeOK
  <1>3. CASE /\ c.interval > 0
             /\ slot' = [slot EXCEPT ![scan] = Rearmed(slot[scan])]
             /\ due' = [due EXCEPT ![scan] = now + slot[scan].delay]
             /\ Advance
             /\ UNCHANGED <<comIndex, allocated, now, parserVars, bin, bin2,
                            posted, overrun>>
    <2>1. c.interval - 1 \in Nat
      BY <1>1, <1>3 DEF Slot
    <2>2. After(c.delay) \in Nat /\ now + c.delay \in Nat
      BY <1>1, TimeArithmetic
    <2>3. Rearmed(c) \in Slot
      BY <1>1, <2>1, <2>2 DEF Rearmed, Slot
    <2>4. slot' \in [Cells -> Slot] /\ due' \in [Cells -> Nat]
      BY <1>1, <1>3, <2>2, <2>3 DEF TypeInv, TypeOK
    <2>5. pc' \in [Parsers -> PC] /\ scan' \in Slots /\ Holding'
      BY <1>3, AdvanceType DEF parserVars, PC
    <2>6. QED
      BY <1>3, <2>4, <2>5 DEF TypeInv, TypeOK, parserVars
  <1>4. QED
    BY <1>2, <1>3 DEF FinishDelayed

LEMMA ServeType ==
  ASSUME TypeInv, Serve
  PROVE  TypeInv'
  <1>1. Main \in Parsers /\ scan \in Slots
    BY DEF Parsers, TypeInv, TypeOK
  <1>2. CASE StartScan
    BY <1>1, <1>2, CellArithmetic DEF StartScan, TypeInv, TypeOK, Holding, PC,
       parserVars, history
  <1>3. CASE Pass
    <2>1. pc' \in [Parsers -> PC] /\ scan' \in Slots /\ Holding'
      BY <1>3, AdvanceType DEF Pass, parserVars, PC
    <2>2. QED
      BY <1>3, <2>1 DEF Pass, TypeInv, TypeOK, parserVars, history
  <1>4. CASE Cancel
    <2>1. PICK i \in Slots, j \in Slots \cup {None} : StartRecycle(i, j)
      BY <1>1, <1>4 DEF Cancel, Named
    <2>2. UNCHANGED <<comIndex, allocated, now, parserVars, overrun>>
      BY <1>4 DEF Cancel
    <2>3. QED
      BY <2>1, <2>2, RecycleType
  <1>5. CASE Execute
    BY <1>1, <1>5 DEF Execute, TypeInv, TypeOK, Holding, PC, parserVars, mainVars,
       history
  <1>6. CASE Executed
    <2>1. CASE pc[Main] = "exec" /\ FinishInstant
      BY <1>1, <2>1, RecycleType DEF FinishInstant
    <2>2. CASE pc[Main] = "execDelayed" /\ FinishDelayed
      BY <2>2, RearmType
    <2>3. QED
      BY <1>6, <2>1, <2>2 DEF Executed
  <1>7. CASE ConditionUnmet
    <2>1. pc[Main] = "scan" /\ (FinishInstant \/ FinishDelayed)
      BY <1>7 DEF ConditionUnmet
    <2>2. CASE FinishInstant
      BY <1>1, <2>2, RecycleType DEF FinishInstant
    <2>3. CASE FinishDelayed
      BY <2>1, <2>3, RearmType
    <2>4. QED
      BY <2>1, <2>2, <2>3
  <1>8. CASE Discard
    BY <1>1, <1>8, RecycleType DEF Discard, FinishInstant
  <1>9. CASE Recycle
    <2>1. bin \in Slots /\ bin \in Cells /\ bin # None /\ pc[Main] = "recycle"
      BY <1>9, CellArithmetic DEF Recycle, TypeInv, TypeOK, Holding
    <2>2. Cleared(slot[bin]) \in Slot
      BY <2>1, EmptySlotType DEF Cleared, EmptySlot, Slot, TypeInv, TypeOK
    <2>3. slot' \in [Cells -> Slot]
      BY <1>9, <2>1, <2>2 DEF Recycle, TypeInv, TypeOK
    <2>4. pc' \in [Parsers -> PC] /\ scan' \in Slots /\ Holding'
      <3>1. CASE bin2 = None
        BY <1>9, <2>1, <3>1, AdvanceType DEF Recycle, parserVars, PC
      <3>2. CASE bin2 # None
        BY <1>1, <1>9, <2>1, <3>2 DEF Recycle, parserVars, PC, TypeInv, TypeOK,
           Holding
      <3>3. QED
        BY <3>1, <3>2
    <2>5. QED
      BY <1>9, <2>3, <2>4 DEF Recycle, Freed, TypeInv, TypeOK, parserVars, history
  <1>10. CASE RecycleNext
    <2>1. bin2 \in Slots
      BY <1>10 DEF RecycleNext, TypeInv, TypeOK, Holding
    <2>2. QED
      BY <1>10, <2>1, RecycleType DEF RecycleNext
  <1>11. QED
    BY <1>2, <1>3, <1>4, <1>5, <1>6, <1>7, <1>8, <1>9, <1>10 DEF Serve

LEMMA TickType ==
  ASSUME TypeInv, Tick
  PROVE  TypeInv'
  BY PoolAssumption DEF Tick, TypeInv, TypeOK, Holding, parserVars, mainVars, history

LEMMA StutterType ==
  ASSUME TypeInv, UNCHANGED vars
  PROVE  TypeInv'
  BY DEF vars, TypeInv, TypeOK, Holding, parserVars, mainVars, history

\* Every variable of the pool keeps its type, and the local pointers are set
\* where they are followed.
THEOREM TypeCorrect == Spec => [](TypeOK /\ Holding)
  <1>1. Init => TypeInv
    BY InitType
  <1>2. TypeInv /\ [Next]_vars => TypeInv'
    <2> SUFFICES ASSUME TypeInv, [Next]_vars PROVE TypeInv'
      OBVIOUS
    <2>1. ASSUME NEW t \in Tasks, Obtain(t) PROVE TypeInv'
      BY <2>1, ObtainType
    <2>2. ASSUME NEW t \in Tasks, Parse(t) PROVE TypeInv'
      BY <2>2, ParseType
    <2>3. CASE Serve
      BY <2>3, ServeType
    <2>4. CASE Tick
      BY <2>4, TickType
    <2>5. CASE UNCHANGED vars
      BY <2>5, StutterType
    <2>6. QED
      BY <2>1, <2>2, <2>3, <2>4, <2>5 DEF Next
  <1>3. QED
    BY <1>1, <1>2, PTL DEF Spec, TypeInv

-----------------------------------------------------------------------------
(* Ownership of the payload buffers.                                         *)

\* Slots may let go of buffers, and buffers no slot points at may be freed.
LEMMA OwnedShrinks ==
  ASSUME PayloadsOwned,
         \A i \in Cells : slot'[i].data = slot[i].data \/ slot'[i].data = None,
         \A b \in allocated \ allocated', i \in Cells : slot'[i].data # b
  PROVE  PayloadsOwned'
  BY DEF PayloadsOwned

LEMMA OwnedUnchanged ==
  ASSUME PayloadsOwned, allocated' = allocated,
         \A i \in Cells : slot'[i].data = slot[i].data
  PROVE  PayloadsOwned'
  BY DEF PayloadsOwned

\* A cell is emptied; its buffer may be freed with it.
LEMMA OwnedEmptied ==
  ASSUME TypeInv, PayloadsOwned, NEW i \in Cells, NEW c \in Slot, c.data = None,
         slot' = [slot EXCEPT ![i] = c],
         allocated' = allocated \/ allocated' = allocated \ {slot[i].data}
  PROVE  PayloadsOwned'
  <1>1. slot \in [Cells -> Slot] /\ allocated \subseteq Blocks
    BY DEF TypeInv, TypeOK
  <1>2. \A j \in Cells : slot'[j].data = slot[j].data \/ slot'[j].data = None
    BY <1>1
  <1>3. ASSUME NEW b \in allocated \ allocated', NEW j \in Cells
        PROVE  slot'[j].data # b
    <2>1. b = slot[i].data /\ b # None
      BY <1>1, <1>3, PoolAssumption
    <2>2. CASE j = i
      BY <1>1, <2>1, <2>2
    <2>3. CASE j # i
      BY <1>1, <2>1, <2>3 DEF PayloadsOwned
    <2>4. QED
      BY <2>2, <2>3
  <1>4. QED
    BY <1>2, <1>3, OwnedShrinks

\* One cell changes, but not its pointer.
LEMMA OwnedSame ==
  ASSUME TypeInv, PayloadsOwned, NEW i \in Cells, NEW c \in Slot,
         c.data = slot[i].data, slot' = [slot EXCEPT ![i] = c],
         allocated' = allocated
  PROVE  PayloadsOwned'
  <1>1. slot \in [Cells -> Slot]
    BY DEF TypeInv, TypeOK
  <1>2. \A j \in Cells : slot'[j].data = slot[j].data
    BY <1>1
  <1>3. QED
    BY <1>2, OwnedUnchanged

LEMMA FillOwned ==
  ASSUME NEW t \in Tasks, TypeInv, PayloadsOwned, Fill(t)
  PROVE  PayloadsOwned'
  <1>1. com[t] \in Cells /\ slot[com[t]] \in Slot /\ frame[t] \in Frame
    BY DEF Fill, TypeInv, TypeOK, Holding, Parsers
  <1>2. Filled(slot[com[t]], frame[t]) \in Slot
        /\ Filled(slot[com[t]], frame[t]).data = slot[com[t]].data
    BY <1>1 DEF Filled, Slot, Frame
  <1>3. QED
    BY <1>1, <1>2, OwnedSame DEF Fill

LEMMA RejectOwned ==
  ASSUME NEW t \in Tasks, TypeInv, PayloadsOwned, pc[t] = "payload", Reject(t)
  PROVE  PayloadsOwned'
  <1>1. com[t] \in Cells
    BY DEF TypeInv, TypeOK, Holding, Parsers
  <1>2. QED
    BY <1>1, EmptySlotType, OwnedEmptied DEF Reject, Freed

LEMMA ParsedOwned ==
  ASSUME NEW t \in Tasks, TypeInv, PayloadsOwned,
         ParsePlain(t) \/ ParsePayload(t) \/ ParseNoMemory(t)
  PROVE  PayloadsOwned'
  <1> DEFINE c == slot[com[t]]
  <1>1. pc[t] = "payload"
    BY DEF ParsePlain, ParsePayload, ParseNoMemory
  <1>2. com[t] \in Cells /\ c \in Slot /\ frame[t] \in Frame
        /\ slot \in [Cells -> Slot] /\ allocated \subseteq Blocks
    BY <1>1 DEF TypeInv, TypeOK, Holding, Parsers
  <1>3. c.size \in Nat /\ c.data \in Blocks \cup {None}
    BY <1>2 DEF Slot
  <1>4. CASE ParsePlain(t) \/ ParseNoMemory(t)
    <2>1. slot' = [slot EXCEPT ![com[t]] = Armed(c, frame[t], 0, c.data)]
          /\ allocated' = allocated
      BY <1>4 DEF ParsePlain, ParseNoMemory, Parsed
    <2>2. \A n \in Nat : Armed(c, frame[t], n, c.data) \in Slot
            /\ Armed(c, frame[t], n, c.data).data = c.data
      BY <1>2, <1>3, ArmedType
    <2>3. Armed(c, frame[t], 0, c.data) \in Slot
          /\ Armed(c, frame[t], 0, c.data).data = c.data
      BY <2>2
    <2>4. QED
      BY <1>2, <2>1, <2>3, OwnedSame
  <1>5. CASE ParsePayload(t)
    <2>1. PICK b \in Blocks \ allocated :
            /\ allocated' = allocated \cup {b}
            /\ slot' = [slot EXCEPT ![com[t]] = Armed(c, frame[t], c.size, b)]
      BY <1>5 DEF ParsePayload, Parsed
    <2>2. \A j \in Cells :
            slot'[j].data = IF j = com[t] THEN b ELSE slot[j].data
      BY <1>2, <1>3, <2>1, ArmedType
    <2>3. \A j \in Cells : slot[j].data # b
      BY <2>1, PoolAssumption DEF PayloadsOwned
    <2>4. b # None
      BY <2>1, PoolAssumption
    <2>5. QED
      BY <1>2, <2>1, <2>2, <2>3, <2>4 DEF PayloadsOwned
  <1>6. QED
    BY <1>4, <1>5

LEMMA SplitOwned ==
  ASSUME NEW t \in Tasks, TypeInv, PayloadsOwned, Split(t)
  PROVE  PayloadsOwned'
  <1>1. PICK s \in Cells \cup {None} :
          IF s = None THEN UNCHANGED <<slot, due>> ELSE HandOver(com[t], s)
    BY DEF Split
  <1>2. com[t] \in Cells /\ slot \in [Cells -> Slot] /\ allocated' = allocated
    BY DEF Split, TypeInv, TypeOK, Holding, Parsers
  <1>3. CASE s = None
    BY <1>1, <1>2, <1>3, OwnedUnchanged
  <1>4. CASE s # None
    <2> DEFINE c == slot[com[t]]
               handed == [slot EXCEPT ![s] = SecondHalf(slot[s], c)]
    <2>1. s \in Cells /\ c \in Slot
      BY <1>2, <1>4
    <2>2. slot' = [handed EXCEPT ![com[t]] = FirstHalf(handed[com[t]])]
      BY <1>1, <1>4 DEF HandOver
    <2>3. SecondHalf(slot[s], c) \in Slot
          /\ SecondHalf(slot[s], c).data = slot[s].data
      BY <1>2, <2>1 DEF SecondHalf, Slot, Actions
    <2>4. handed \in [Cells -> Slot]
          /\ \A j \in Cells : handed[j].data = slot[j].data
      BY <1>2, <2>1, <2>3
    <2>5. FirstHalf(handed[com[t]]).data = handed[com[t]].data
      BY <1>2, <2>4 DEF FirstHalf, Slot
    <2>6. \A j \in Cells : slot'[j].data = slot[j].data
      BY <1>2, <2>2, <2>4, <2>5
    <2>7. QED
      BY <1>2, <2>6, OwnedUnchanged
  <1>5. QED
    BY <1>3, <1>4

LEMMA SendOwned ==
  ASSUME NEW t \in Tasks, TypeInv, PayloadsOwned, Send(t) \/ SendRefused(t)
  PROVE  PayloadsOwned'
  <1> DEFINE c == slot[com[t]]
             sent == [c EXCEPT !.valid = TRUE]
  <1>1. com[t] \in Cells /\ c \in Slot
    BY DEF Send, SendRefused, TypeInv, TypeOK, Holding, Parsers
  <1>2. CASE Send(t)
    <2>1. sent \in Slot /\ sent.data = c.data
      BY <1>1 DEF Slot
    <2>2. slot' = [slot EXCEPT ![com[t]] = sent] /\ allocated' = allocated
      BY <1>2 DEF Send
    <2>3. QED
      BY <1>1, <2>1, <2>2, OwnedSame
  <1>3. CASE SendRefused(t)
    BY <1>1, <1>3, EmptySlotType, OwnedEmptied DEF SendRefused, Freed
  <1>4. QED
    BY <1>2, <1>3

LEMMA RecycleOwned ==
  ASSUME TypeInv, PayloadsOwned, NEW i \in Slots, NEW j, StartRecycle(i, j),
         allocated' = allocated
  PROVE  PayloadsOwned'
  <1> DEFINE c == [slot[i] EXCEPT !.valid = FALSE]
  <1>1. i \in Cells /\ slot[i] \in Slot
    BY CellArithmetic DEF TypeInv, TypeOK
  <1>2. c \in Slot /\ c.data = slot[i].data
    BY <1>1 DEF Slot
  <1>3. slot' = [slot EXCEPT ![i] = c]
    BY DEF StartRecycle, Invalidate
  <1>4. QED
    BY <1>1, <1>2, <1>3, OwnedSame

LEMMA FinishOwned ==
  ASSUME TypeInv, PayloadsOwned, FinishInstant \/ FinishDelayed
  PROVE  PayloadsOwned'
  <1> DEFINE c == slot[scan]
  <1>1. scan \in Slots /\ scan \in Cells /\ c \in Slot /\ now \in Nat
    BY CellArithmetic, PoolAssumption DEF TypeInv, TypeOK
  <1>2. CASE FinishInstant
    BY <1>1, <1>2, RecycleOwned DEF FinishInstant
  <1>3. CASE c.interval > 0 /\ slot' = [slot EXCEPT ![scan] = Rearmed(c)]
             /\ allocated' = allocated
    <2>1. c.delay \in Nat /\ c.interval - 1 \in Nat
      BY <1>1, <1>3 DEF Slot
    <2>2. After(c.delay) \in Nat
      BY <1>1, <2>1, TimeArithmetic
    <2>3. Rearmed(c) \in Slot /\ Rearmed(c).data = c.data
      BY <1>1, <2>1, <2>2 DEF Rearmed, Slot
    <2>4. QED
      BY <1>1, <1>3, <2>3, OwnedSame
  <1>4. QED
    BY <1>2, <1>3 DEF FinishDelayed

LEMMA ServeOwned ==
  ASSUME TypeInv, PayloadsOwned, Serve
  PROVE  PayloadsOwned'
  <1>1. scan \in Slots
    BY DEF TypeInv, TypeOK
  <1>2. CASE StartScan \/ Pass \/ Execute
    BY <1>2, OwnedUnchanged DEF StartScan, Pass, Execute
  <1>3. CASE Cancel
    BY <1>1, <1>3, RecycleOwned DEF Cancel, Named
  <1>4. CASE Executed \/ ConditionUnmet \/ Discard
    BY <1>4, FinishOwned DEF Executed, ConditionUnmet, Discard
  <1>5. CASE Recycle
    <2>1. bin \in Cells
      BY <1>5, CellArithmetic DEF Recycle, TypeInv, TypeOK, Holding
    <2>2. Cleared(slot[bin]) \in Slot /\ Cleared(slot[bin]).data = None
      BY <2>1, EmptySlotType DEF Cleared, EmptySlot, Slot, TypeInv, TypeOK
    <2>3. QED
      BY <1>5, <2>1, <2>2, OwnedEmptied DEF Recycle, Freed
  <1>6. CASE RecycleNext
    <2>1. bin2 \in Slots
      BY <1>6 DEF RecycleNext, TypeInv, TypeOK, Holding
    <2>2. QED
      BY <1>6, <2>1, RecycleOwned DEF RecycleNext
  <1>7. QED
    BY <1>2, <1>3, <1>4, <1>5, <1>6 DEF Serve

\* Whatever the interleaving, and even when two tasks are handed the same slot,
\* no payload is freed twice or while another slot points at it.
THEOREM PayloadsAreOwned == Spec => []PayloadsOwned
  <1>1. Init => PayloadsOwned
    BY EmptySlotType DEF Init, PayloadsOwned
  <1>2. TypeInv /\ PayloadsOwned /\ [Next]_vars => PayloadsOwned'
    <2> SUFFICES ASSUME TypeInv, PayloadsOwned, [Next]_vars PROVE PayloadsOwned'
      OBVIOUS
    <2>1. ASSUME NEW t \in Tasks, Obtain(t) PROVE PayloadsOwned'
      BY <2>1, OwnedUnchanged DEF Obtain
    <2>2. ASSUME NEW t \in Tasks, Parse(t) PROVE PayloadsOwned'
      BY <2>2, FillOwned, RejectOwned, ParsedOwned, SplitOwned, SendOwned
         DEF Parse, RejectShort, RejectNoMemory
    <2>3. CASE Serve
      BY <2>3, ServeOwned
    <2>4. CASE Tick \/ UNCHANGED vars
      BY <2>4, OwnedUnchanged DEF Tick, vars
    <2>5. QED
      BY <2>1, <2>2, <2>3, <2>4 DEF Next
  <1>3. QED
    BY <1>1, <1>2, TypeCorrect, PTL DEF Spec, TypeInv

-----------------------------------------------------------------------------
(* One task that both parses and executes: the serial line alone, or the     *)
(* monitors, which the main task handles between two scans.                  *)

Parsing == pc[Main] \in {"fill", "payload", "split", "send"}
Held    == {com[Main], com1[Main]} \cap Slots

\* What a slot has of the frame it was parsed from.
AsSent(c, f) ==
  /\ c.id = (IF f.kind = "binary" THEN f.id ELSE 0)
  /\ c.target = f.target
  /\ \/ c.action = f.action
     \/ f.kind = "string" /\ OnFor(f) /\ c.action \in {"OFF", "TOGGLE"}
  /\ c.cond => f.cond

\* The pointers are set while a parse is under way only.
Pointers ==
  /\ ~Parsing => com[Main] = None
  /\ pc[Main] # "send" => com1[Main] = None
  /\ Beyond \in {com[Main], com1[Main]} => overrun

\* A free slot that nobody holds has nothing left of an earlier command.
Clean ==
  \A i \in Slots \ Held : ~slot[i].valid =>
    slot[i] = EmptySlot \/ (pc[Main] = "recycle" /\ i = bin)

\* A command that may be picked up is complete, and as it was sent.
Good ==
  \A i \in Slots : slot[i].valid =>
    Complete(slot[i]) /\ posted[i] # None /\ AsSent(slot[i], posted[i])

\* How far the parse has come with the slot it holds.
Fills ==
  pc[Main] = "fill" /\ com[Main] \in Slots => slot[com[Main]] = EmptySlot

Filling ==
  pc[Main] = "payload" =>
    /\ com[Main] \in Slots => slot[com[Main]] = Filled(EmptySlot, frame[Main])
    /\ slot[com[Main]].action = frame[Main].action
    /\ slot[com[Main]].target = frame[Main].target
    /\ slot[com[Main]].delay = frame[Main].delay

Splitting ==
  pc[Main] = "split" =>
    /\ frame[Main].kind = "string" /\ OnFor(frame[Main])
    /\ slot[com[Main]].target = frame[Main].target
    /\ com[Main] \in Slots =>
         ~slot[com[Main]].valid /\ AsSent(slot[com[Main]], frame[Main])

Sending ==
  pc[Main] = "send" =>
    \A i \in Held : Complete(slot[i]) => AsSent(slot[i], frame[Main])

\* What the main task is at.
Loop ==
  /\ Executing => slot[scan].valid
  /\ pc[Main] = "recycle" => ~slot[bin].valid
  /\ pc[Main] \in {"recycle", "recycle2"} => bin2 \in {None, scan}

Progress == Fills /\ Filling /\ Splitting /\ Sending

SerialInv == NoLeak /\ Pointers /\ Clean /\ Good /\ Progress /\ Loop

LEMMA InitSerial == ASSUME Init PROVE SerialInv
  <1> USE DEF Init
  <1>1. Main \in Parsers /\ pc[Main] = "idle" /\ com[Main] = None /\ com1[Main] = None
    BY DEF Parsers
  <1>2. \A i \in Slots : slot[i] = EmptySlot /\ ~slot[i].valid
    BY CellArithmetic DEF EmptySlot
  <1>3. NoLeak
    BY DEF NoLeak
  <1>4. Pointers /\ Progress /\ Loop
    BY <1>1, CellArithmetic DEF Pointers, Progress, Fills, Filling, Splitting, Sending,
       Loop, Executing
  <1>5. Clean /\ Good
    BY <1>2 DEF Clean, Good
  <1>6. QED
    BY <1>3, <1>4, <1>5 DEF SerialInv

\* A step that writes one cell.
LEMMA OneCell ==
  ASSUME TypeInv, NEW i \in Cells, NEW c, slot' = [slot EXCEPT ![i] = c]
  PROVE  /\ slot'[i] = c
         /\ \A j \in Cells : j # i => slot'[j] = slot[j]
         /\ \A j \in Slots : j # i => slot'[j] = slot[j]
  BY CellArithmetic DEF TypeInv, TypeOK

\* obtainCommand hands out a free slot of the array, the memory after it, or nothing.
LEMMA ObtainedFree ==
  ASSUME TypeInv, NEW s, NEW k, Obtained(s, k), s \in Slots
  PROVE  ~slot[s].valid
  <1>1. Beyond \notin Slots
    BY PoolAssumption DEF Beyond, Slots
  <1>2. CASE ObtainedAtCursor(s, k)
    BY <1>1, <1>2 DEF ObtainedAtCursor
  <1>3. CASE ObtainedByScan(s, k)
    <2>1. s \in Free
      BY <1>3, CellArithmetic DEF ObtainedByScan
    <2>2. QED
      BY <2>1 DEF Free
  <1>4. QED
    BY <1>2, <1>3 DEF Obtained

LEMMA FilledIs ==
  ASSUME NEW c \in Slot, NEW f \in Frame
  PROVE  /\ Filled(c, f) \in Slot
         /\ Filled(c, f).id = (IF f.kind = "binary" THEN f.id ELSE c.id)
         /\ Filled(c, f).action = f.action /\ Filled(c, f).target = f.target
         /\ Filled(c, f).delay = f.delay /\ Filled(c, f).duration = c.duration
         /\ Filled(c, f).data = c.data /\ Filled(c, f).cond = c.cond
         /\ Filled(c, f).valid = c.valid
  BY DEF Filled, Slot, Frame

LEMMA ArmedIs ==
  ASSUME NEW c \in Slot, NEW f \in Frame, NEW size, NEW data
  PROVE  LET d == Armed(c, f, size, data) IN
         /\ d.id = c.id /\ d.action = c.action /\ d.target = c.target
         /\ d.delay = c.delay /\ d.valid = c.valid /\ d.data = data
         /\ d.cond => c.cond \/ f.cond
         /\ d.duration = IF c.delay > 0 THEN After(c.delay) ELSE c.duration
  BY DEF Armed, Slot

LEMMA EmptyIs ==
  /\ EmptySlot \in Slot /\ ~EmptySlot.valid /\ EmptySlot.data = None
  /\ EmptySlot.id = 0 /\ ~EmptySlot.cond /\ ~Complete(EmptySlot)
  /\ EmptySlot.duration = 0 /\ EmptySlot.delay = 0
  BY DEF EmptySlot, Slot, Actions, Targets, Complete

\* recycleCommand leaves nothing in a slot that is still free.
LEMMA ClearedIs ==
  ASSUME NEW c \in Slot, c.valid = FALSE
  PROVE  Cleared(c) = EmptySlot
  <1> DEFINE d == Cleared(c)
  <1>1. EmptySlot \in Slot /\ EmptySlot.valid = FALSE
    BY EmptyIs DEF Slot
  <1>2. d \in Slot
    BY <1>1 DEF Cleared, Slot
  <1>3. /\ d.valid = EmptySlot.valid /\ d.id = EmptySlot.id
        /\ d.action = EmptySlot.action /\ d.target = EmptySlot.target
        /\ d.delay = EmptySlot.delay /\ d.interval = EmptySlot.interval
        /\ d.duration = EmptySlot.duration /\ d.size = EmptySlot.size
        /\ d.data = EmptySlot.data /\ d.cond = EmptySlot.cond
    BY <1>1 DEF Cleared, Slot
  <1> HIDE DEF d
  <1>4. d = EmptySlot
    BY <1>1, <1>2, <1>3 DEF Slot
  <1>5. QED
    BY <1>4 DEF d

LEMMA ObtainSerial ==
  ASSUME TypeInv, SerialInv, Obtain(Main)
  PROVE  SerialInv'
  <1> USE DEF SerialInv
  <1>1. PICK s \in Cells \cup {None}, k \in Cells :
          /\ Obtained(s, k)
          /\ pc' = [pc EXCEPT ![Main] = IF s = None THEN Rest(Main) ELSE "fill"]
          /\ com' = [com EXCEPT ![Main] = s]
          /\ overrun' = (overrun \/ s = Beyond)
    BY DEF Obtain
  <1>2. UNCHANGED <<slot, allocated, com1, posted>> /\ pc[Main] = "idle"
    BY DEF Obtain
  <1>3. pc'[Main] = (IF s = None THEN "ready" ELSE "fill") /\ com'[Main] = s
    BY <1>1 DEF TypeInv, TypeOK, Parsers, Rest
  <1>4. com[Main] = None /\ com1[Main] = None
    BY <1>2 DEF Pointers, Parsing
  <1>5. \A i \in Slots : ~slot[i].valid => slot[i] = EmptySlot
    BY <1>2, <1>4, CellArithmetic DEF Clean, Held
  <1>6. s \in Slots => slot[s] = EmptySlot
    BY <1>1, <1>5, ObtainedFree
  <1>7. NoLeak'
    BY <1>1, <1>2 DEF NoLeak
  <1>8. Pointers'
    BY <1>1, <1>2, <1>3, <1>4, CellArithmetic DEF Pointers, Parsing
  <1>9. Clean' /\ Good'
    BY <1>2, <1>5 DEF Clean, Good, Complete, AsSent
  <1>10. Progress' /\ Loop'
    BY <1>2, <1>3, <1>6, CellArithmetic DEF Progress, Fills, Filling, Splitting, Sending, Loop, Executing
  <1>11. QED
    BY <1>7, <1>8, <1>9, <1>10

LEMMA FillSerial ==
  ASSUME TypeInv, SerialInv, Fill(Main)
  PROVE  SerialInv'
  <1> USE DEF SerialInv
  <1> DEFINE i == com[Main]
             f == frame[Main]
             c == Filled(slot[i], f)
  <1>1. i \in Cells /\ slot[i] \in Slot /\ f \in Frame /\ pc[Main] = "fill"
    BY DEF Fill, TypeInv, TypeOK, Holding, Parsers
  <1>2. UNCHANGED <<allocated, com, com1, frame, posted, overrun>> /\ pc'[Main] = "payload"
    BY DEF Fill, TypeInv, TypeOK, Parsers, parserVars, history
  <1>3. slot'[i] = c /\ \A j \in Cells : j # i => slot'[j] = slot[j]
    BY <1>1, OneCell DEF Fill
  <1>4. c.data = slot[i].data /\ c.action = f.action /\ c.target = f.target
        /\ c.delay = f.delay /\ c.valid = slot[i].valid
    BY <1>1, FilledIs
  <1> HIDE DEF c
  <1>5. i \in Slots => slot[i] = EmptySlot /\ ~slot[i].valid
    BY <1>1, EmptyIs DEF Progress, Fills
  <1>6. NoLeak'
    BY <1>1, <1>2, <1>3, <1>4 DEF NoLeak
  <1>7. Pointers'
    BY <1>1, <1>2 DEF Pointers, Parsing
  <1>8. Clean' /\ Good'
    BY <1>1, <1>2, <1>3, <1>4, <1>5, CellArithmetic DEF Clean, Good, Held
  <1>9. Progress' /\ Loop'
    <2>1. i \in Slots => c = Filled(EmptySlot, f)
      BY <1>5 DEF c
    <2>2. QED
      BY <1>2, <1>3, <1>4, <2>1 DEF Progress, Fills, Filling, Splitting, Sending, Loop, Executing
  <1>10. QED
    BY <1>6, <1>7, <1>8, <1>9

LEMMA RejectSerial ==
  ASSUME TypeInv, SerialInv, pc[Main] = "payload", Reject(Main)
  PROVE  SerialInv'
  <1> USE DEF SerialInv
  <1> DEFINE i == com[Main]
  <1>1. i \in Cells /\ slot[i] \in Slot /\ frame[Main] \in Frame /\ allocated \subseteq Blocks
    BY DEF TypeInv, TypeOK, Holding, Parsers
  <1>2. UNCHANGED <<com1, overrun>> /\ pc'[Main] = "ready" /\ com'[Main] = None
    BY DEF Reject, TypeInv, TypeOK, Parsers, Rest
  <1>3. slot'[i] = EmptySlot /\ \A j \in Cells : j # i => slot'[j] = slot[j]
    BY <1>1, OneCell DEF Reject
  <1>4. com1[Main] = None
    BY DEF Pointers
  <1>5. NoLeak'
    <2>1. CASE overrun
      BY <1>2, <2>1 DEF NoLeak
    <2>2. CASE ~overrun
      <3>1. i \in Slots
        BY <1>1, <2>2 DEF Pointers, Cells
      <3>2. slot[i].data = None
        BY <1>1, <3>1, FilledIs, EmptyIs DEF Progress, Filling
      <3>3. \A b \in allocated' : b \in allocated /\ b # None
        BY <1>1, PoolAssumption DEF Reject, Freed
      <3>4. QED
        BY <1>3, <2>2, <3>2, <3>3 DEF NoLeak
    <2>3. QED
      BY <2>1, <2>2
  <1>6. Pointers'
    BY <1>2, <1>4, CellArithmetic DEF Pointers, Parsing
  <1>7. Clean'
    BY <1>1, <1>2, <1>3, <1>4, CellArithmetic DEF Clean, Held
  <1>8. Good'
    <2>1. \A j \in Slots : j # i => posted'[j] = posted[j]
      BY <1>1, CellArithmetic DEF Reject, TypeInv, TypeOK
    <2>2. QED
      BY <1>3, <2>1, EmptyIs, CellArithmetic DEF Good
  <1>9. Progress' /\ Loop'
    BY <1>2 DEF Progress, Fills, Filling, Splitting, Sending, Loop, Executing
  <1>10. QED
    BY <1>5, <1>6, <1>7, <1>8, <1>9

\* A parse that succeeds leaves the command as it was sent, with the payload it
\* was given.
LEMMA ParsedSerial ==
  ASSUME TypeInv, SerialInv, pc[Main] = "payload", NEW size, NEW data,
         Parsed(Main, size, data),
         \/ data = slot[com[Main]].data /\ allocated' = allocated
         \/ allocated' = allocated \cup {data}
  PROVE  SerialInv'
  <1> USE DEF SerialInv
  <1> DEFINE i == com[Main]
             f == frame[Main]
             c == Armed(slot[i], f, size, data)
  <1>1. i \in Cells /\ slot[i] \in Slot /\ f \in Frame /\ allocated \subseteq Blocks
    BY DEF TypeInv, TypeOK, Holding, Parsers
  <1>2. UNCHANGED <<com, com1, frame, posted, overrun>>
        /\ pc'[Main] = (IF f.kind = "string" /\ OnFor(slot[i]) THEN "split" ELSE "send")
    BY DEF Parsed, TypeInv, TypeOK, Parsers, parserVars
  <1>3. slot'[i] = c /\ \A j \in Cells : j # i => slot'[j] = slot[j]
    BY <1>1, OneCell DEF Parsed
  <1>4. c.id = slot[i].id /\ c.action = slot[i].action /\ c.target = slot[i].target
        /\ c.valid = slot[i].valid /\ c.data = data /\ (c.cond => slot[i].cond \/ f.cond)
    BY <1>1, ArmedIs
  <1> HIDE DEF c
  <1>5. com1[Main] = None
    BY DEF Pointers
  <1>6. slot[i].action = f.action /\ slot[i].target = f.target /\ slot[i].delay = f.delay
    BY DEF Progress, Filling
  <1>7. ASSUME i \in Slots
        PROVE  ~slot[i].valid /\ slot[i].data = None /\ AsSent(c, f)
    <2>1. slot[i] = Filled(EmptySlot, f)
      BY <1>7 DEF Progress, Filling
    <2>2. slot[i].id = (IF f.kind = "binary" THEN f.id ELSE 0) /\ ~slot[i].cond
          /\ ~slot[i].valid /\ slot[i].data = None
      BY <1>1, <2>1, FilledIs, EmptyIs
    <2>3. QED
      BY <1>4, <1>6, <2>2 DEF AsSent
  <1>8. NoLeak'
    <2>1. CASE overrun
      BY <1>2, <2>1 DEF NoLeak
    <2>2. CASE ~overrun
      <3>1. i \in Slots
        BY <1>1, <2>2 DEF Pointers, Cells
      <3>2. \A b \in allocated : b # None
        BY <1>1, PoolAssumption
      <3>3. \A b \in allocated : \E j \in Cells : slot'[j].data = b
        BY <1>3, <1>7, <2>2, <3>1, <3>2 DEF NoLeak
      <3>4. \A b \in allocated' : b \in allocated \/ b = data
        OBVIOUS
      <3>5. QED
        BY <1>1, <1>3, <1>4, <3>3, <3>4 DEF NoLeak
    <2>3. QED
      BY <2>1, <2>2
  <1>9. Pointers'
    BY <1>2, <1>5 DEF Pointers, Parsing
  <1>10. Clean' /\ Good'
    BY <1>1, <1>2, <1>3, <1>4, <1>7, CellArithmetic DEF Clean, Good, Held
  <1>11. Progress' /\ Loop'
    <2>1. pc'[Main] = "split" => f.kind = "string" /\ OnFor(f)
      BY <1>2, <1>6 DEF OnFor
    <2>2. pc'[Main] \in {"split", "send"}
      BY <1>2
    <2>3. Held' \subseteq {i} \cap Slots
      BY <1>2, <1>5, CellArithmetic DEF Held
    <2>4. Sending'
      BY <1>2, <1>3, <1>7, <2>3 DEF Sending, AsSent
    <2>5. Splitting'
      BY <1>2, <1>3, <1>4, <1>6, <1>7, <2>1 DEF Splitting, AsSent
    <2>6. QED
      BY <2>2, <2>4, <2>5 DEF Progress, Fills, Filling, Loop, Executing
  <1>12. QED
    BY <1>8, <1>9, <1>10, <1>11

\* What the two commands of a split have of the one they were.
LEMMA HandedOver ==
  ASSUME TypeInv, NEW i \in Cells, NEW s \in Cells, HandOver(i, s)
  PROVE  /\ \A j \in Cells \ {i, s} : slot'[j] = slot[j]
         /\ \A j \in Cells : /\ slot'[j].valid = slot[j].valid /\ slot'[j].id = slot[j].id
                             /\ slot'[j].data = slot[j].data /\ slot'[j].cond = slot[j].cond
         /\ slot'[i].target = slot[i].target /\ slot'[s].target = slot[i].target
         /\ slot'[s].action \in {"OFF", "TOGGLE"}
         /\ slot'[i].delay = 0 /\ slot'[i].duration = 0
         /\ s # i => /\ slot'[i].action = slot[i].action
                     /\ slot'[s].delay = slot[i].delay
                     /\ slot'[s].duration = slot[i].duration
  <1> DEFINE c == slot[i]
             d == SecondHalf(slot[s], c)
             handed == [slot EXCEPT ![s] = d]
  <1>1. slot \in [Cells -> Slot] /\ c \in Slot /\ slot[s] \in Slot
    BY DEF TypeInv, TypeOK
  <1>2. d.valid = slot[s].valid /\ d.id = slot[s].id /\ d.data = slot[s].data
        /\ d.cond = slot[s].cond /\ d.target = c.target /\ d.action \in {"OFF", "TOGGLE"}
        /\ d.delay = c.delay /\ d.duration = c.duration /\ d \in Slot
    BY <1>1 DEF SecondHalf, Slot, Actions
  <1>3. slot' = [handed EXCEPT ![i] = FirstHalf(handed[i])]
    BY DEF HandOver
  <1> HIDE DEF d
  <1>4. handed \in [Cells -> Slot] /\ handed[s] = d
        /\ \A j \in Cells : j # s => handed[j] = slot[j]
    BY <1>1, <1>2
  <1> HIDE DEF handed
  <1>5. slot'[i] = FirstHalf(handed[i]) /\ \A j \in Cells : j # i => slot'[j] = handed[j]
    BY <1>3, <1>4
  <1>6. LET e == FirstHalf(handed[i]) IN
          /\ e.valid = handed[i].valid /\ e.id = handed[i].id /\ e.data = handed[i].data
          /\ e.cond = handed[i].cond /\ e.target = handed[i].target
          /\ e.action = handed[i].action /\ e.delay = 0 /\ e.duration = 0
    BY <1>4 DEF FirstHalf, Slot
  <1>7. CASE s = i
    BY <1>2, <1>4, <1>5, <1>6, <1>7
  <1>8. CASE s # i
    BY <1>2, <1>4, <1>5, <1>6, <1>8
  <1>9. QED
    BY <1>7, <1>8

LEMMA SplitSerial ==
  ASSUME TypeInv, SerialInv, Split(Main)
  PROVE  SerialInv'
  <1> USE DEF SerialInv
  <1> DEFINE i == com[Main]
             f == frame[Main]
  <1>1. PICK s \in Cells \cup {None}, k \in Cells :
          /\ Obtained(s, k)
          /\ com1' = [com1 EXCEPT ![Main] = s]
          /\ overrun' = (overrun \/ s = Beyond)
          /\ IF s = None THEN UNCHANGED <<slot, due>> ELSE HandOver(i, s)
    BY DEF Split
  <1>2. UNCHANGED <<allocated, com, frame, posted>> /\ pc[Main] = "split"
        /\ pc'[Main] = "send" /\ com1'[Main] = s
    BY <1>1 DEF Split, TypeInv, TypeOK, Parsers
  <1>3. com1[Main] = None /\ i \in Cells /\ f.kind = "string" /\ OnFor(f)
        /\ slot[i].target = f.target
    BY <1>2 DEF Pointers, Progress, Splitting, TypeInv, TypeOK, Holding, Parsers
  <1>4. i \in Slots => ~slot[i].valid /\ AsSent(slot[i], f)
    BY <1>2 DEF Progress, Splitting
  <1>5. Pointers'
    BY <1>1, <1>2 DEF Pointers, Parsing
  <1>6. CASE s = None
    <2>1. UNCHANGED slot /\ (overrun' <=> overrun)
      BY <1>1, <1>6, CellArithmetic
    <2>2. NoLeak'
      BY <1>2, <2>1 DEF NoLeak
    <2>3. Held' = Held
      BY <1>2, <1>3, <1>6, CellArithmetic DEF Held
    <2>4. Clean' /\ Good'
      BY <1>2, <2>1, <2>3 DEF Clean, Good
    <2>5. Progress' /\ Loop'
      BY <1>2, <1>4, <1>6, <2>1, CellArithmetic
         DEF Progress, Fills, Filling, Splitting, Sending, Held, Loop, Executing
    <2>6. QED
      BY <1>5, <2>2, <2>4, <2>5
  <1>7. CASE s # None
    <2>1. s \in Cells /\ HandOver(i, s)
      BY <1>1, <1>7
    <2>2. \A j \in Cells \ {i, s} : slot'[j] = slot[j]
      BY <1>3, <2>1, HandedOver
    <2>3. \A j \in Cells : /\ slot'[j].valid = slot[j].valid /\ slot'[j].id = slot[j].id
                          /\ slot'[j].data = slot[j].data /\ slot'[j].cond = slot[j].cond
      BY <1>3, <2>1, HandedOver
    <2>4. /\ slot'[i].target = slot[i].target /\ slot'[s].target = slot[i].target
          /\ slot'[s].action \in {"OFF", "TOGGLE"}
          /\ s # i => slot'[i].action = slot[i].action
      BY <1>3, <2>1, HandedOver
    <2>5. s \in Slots => /\ ~slot[s].valid
                         /\ s # i => slot[s] = EmptySlot
      BY <1>1, <1>2, <1>3, ObtainedFree, CellArithmetic DEF Clean, Held
    <2>6. i \in Slots => AsSent(slot'[i], f)
      BY <1>3, <1>4, <2>3, <2>4 DEF AsSent
    <2>7. s \in Slots => AsSent(slot'[s], f)
      <3>1. CASE s = i
        BY <2>6, <3>1
      <3>2. CASE s # i
        BY <1>3, <2>1, <2>3, <2>4, <2>5, <3>2, EmptyIs DEF AsSent
      <3>3. QED
        BY <3>1, <3>2
    <2>8. NoLeak'
      BY <1>1, <1>2, <2>3 DEF NoLeak
    <2>9. Held' = {i, s} \cap Slots
      BY <1>2 DEF Held
    <2>10. Clean' /\ Good'
      BY <1>2, <1>3, <1>4, <2>2, <2>3, <2>5, <2>9, CellArithmetic DEF Clean, Good, Held
    <2>11. Progress' /\ Loop'
      BY <1>2, <2>6, <2>7, <2>9
         DEF Progress, Fills, Filling, Splitting, Sending, Loop, Executing
    <2>12. QED
      BY <1>5, <2>8, <2>10, <2>11
  <1>8. QED
    BY <1>6, <1>7

LEMMA SendSerial ==
  ASSUME TypeInv, SerialInv, Send(Main) \/ SendRefused(Main)
  PROVE  SerialInv'
  <1> USE DEF SerialInv
  <1> DEFINE i == com[Main]
             f == frame[Main]
  <1>1. i \in Cells /\ slot[i] \in Slot /\ f # None /\ pc[Main] = "send"
    BY DEF Send, SendRefused, TypeInv, TypeOK, Holding, Parsers
  <1>2. /\ com'[Main] = com1[Main] /\ com1'[Main] = None /\ UNCHANGED overrun
        /\ pc'[Main] = (IF com1[Main] = None THEN "ready" ELSE "send")
        /\ com1[Main] # None => frame'[Main] = f
    BY DEF Send, SendRefused, Release, TypeInv, TypeOK, Parsers, Rest
  <1>3. Pointers'
    BY <1>2, CellArithmetic DEF Pointers, Parsing
  <1>4. Fills' /\ Filling' /\ Splitting' /\ Loop'
    BY <1>2 DEF Fills, Filling, Splitting, Loop, Executing
  <1>5. Held' \subseteq Held /\ Held \subseteq Held' \cup {i}
    BY <1>2, CellArithmetic DEF Held
  <1>6. CASE Send(Main)
    <2> DEFINE c == [slot[i] EXCEPT !.valid = TRUE]
    <2>1. slot'[i] = c /\ \A j \in Cells : j # i => slot'[j] = slot[j]
      BY <1>1, <1>6, OneCell DEF Send
    <2>2. c.valid /\ c.data = slot[i].data /\ (Complete(c) <=> Complete(slot[i]))
          /\ (AsSent(c, f) <=> AsSent(slot[i], f))
      BY <1>1 DEF Slot, Complete, AsSent
    <2> HIDE DEF c
    <2>3. Complete(slot[i]) /\ (i \in Slots => AsSent(slot[i], f))
      BY <1>1, <1>6 DEF Send, Progress, Sending, Held
    <2>4. posted'[i] = f /\ \A j \in Slots : j # i => posted'[j] = posted[j]
      BY <1>1, <1>6, CellArithmetic DEF Send, TypeInv, TypeOK
    <2>5. NoLeak'
      BY <1>1, <1>2, <1>6, <2>1, <2>2 DEF NoLeak, Send
    <2>6. Clean'
      BY <1>1, <1>5, <2>1, <2>2, CellArithmetic DEF Clean
    <2>7. Good'
      BY <1>1, <2>1, <2>2, <2>3, <2>4, CellArithmetic DEF Good
    <2>8. Sending'
      <3>1. SUFFICES ASSUME pc'[Main] = "send", NEW j \in Held', Complete(slot'[j])
                     PROVE  AsSent(slot'[j], f)
        BY <1>2 DEF Sending
      <3>2. j \in Slots /\ j \in Held
        BY <1>5, <3>1 DEF Held
      <3>3. QED
        BY <1>1, <2>1, <2>2, <2>3, <3>1, <3>2, CellArithmetic DEF Progress, Sending
    <2>9. QED
      BY <1>3, <1>4, <2>5, <2>6, <2>7, <2>8 DEF Progress
  <1>7. CASE SendRefused(Main)
    <2>1. slot'[i] = EmptySlot /\ \A j \in Cells : j # i => slot'[j] = slot[j]
      BY <1>1, <1>7, OneCell DEF SendRefused
    <2>2. \A j \in Slots : j # i => posted'[j] = posted[j]
      BY <1>1, <1>7, CellArithmetic DEF SendRefused, TypeInv, TypeOK
    <2>3. allocated' = allocated \ {slot[i].data}
      BY <1>7 DEF SendRefused, Freed
    <2>4. NoLeak'
      BY <1>1, <1>2, <2>1, <2>3 DEF NoLeak
    <2>5. Clean'
      BY <1>1, <1>5, <2>1, CellArithmetic DEF Clean
    <2>6. Good'
      BY <2>1, <2>2, EmptyIs, CellArithmetic DEF Good
    <2>7. Sending'
      <3>1. SUFFICES ASSUME pc'[Main] = "send", NEW j \in Held', Complete(slot'[j])
                     PROVE  AsSent(slot'[j], f)
        BY <1>2 DEF Sending
      <3>2. j \in Slots /\ j \in Held /\ j # i
        BY <1>5, <2>1, <3>1, EmptyIs DEF Held
      <3>3. QED
        BY <1>1, <2>1, <3>1, <3>2, CellArithmetic DEF Progress, Sending
    <2>8. QED
      BY <1>3, <1>4, <2>4, <2>5, <2>6, <2>7 DEF Progress
  <1>8. QED
    BY <1>6, <1>7

\* The main task holds no pointer while it scans.
LEMMA ScanSerial ==
  ASSUME TypeInv, SerialInv,
         pc[Main] \notin {"fill", "payload", "split", "send"},
         pc'[Main] \notin {"fill", "payload", "split", "send"},
         UNCHANGED <<com, com1, frame, overrun>>
  PROVE  /\ Pointers' /\ Progress'
         /\ Held = {} /\ Held' = {}
  BY CellArithmetic DEF SerialInv, Pointers, Parsing, Progress, Fills, Filling, Splitting,
     Sending, Held

LEMMA RecycleSerial ==
  ASSUME TypeInv, SerialInv, pc[Main] \in {"scan", "exec", "execDelayed", "recycle2"},
         NEW i \in Slots, NEW j \in {None, scan}, StartRecycle(i, j),
         UNCHANGED <<allocated, parserVars, overrun>>
  PROVE  SerialInv'
  <1> USE DEF SerialInv
  <1> DEFINE c == [slot[i] EXCEPT !.valid = FALSE]
  <1>1. pc'[Main] = "recycle" /\ bin' = i /\ bin2' = j /\ scan' = scan
    BY DEF StartRecycle, TypeInv, TypeOK, Parsers
  <1>2. i \in Cells /\ slot[i] \in Slot
    BY CellArithmetic DEF TypeInv, TypeOK
  <1>3. slot'[i] = c /\ \A n \in Cells : n # i => slot'[n] = slot[n]
    BY <1>2, OneCell DEF StartRecycle, Invalidate
  <1>4. ~c.valid /\ c.data = slot[i].data
    BY <1>2 DEF Slot
  <1> HIDE DEF c
  <1>5. \A n \in Slots : n # i => posted'[n] = posted[n]
    BY CellArithmetic DEF StartRecycle, Invalidate, TypeInv, TypeOK
  <1>6. Pointers' /\ Progress' /\ Held = {} /\ Held' = {}
    BY <1>1, ScanSerial DEF parserVars
  <1>7. NoLeak'
    BY <1>2, <1>3, <1>4 DEF NoLeak
  <1>8. Clean' /\ Good'
    BY <1>1, <1>3, <1>4, <1>5, <1>6, CellArithmetic DEF Clean, Good
  <1>9. Loop'
    BY <1>1, <1>3, <1>4 DEF Loop, Executing
  <1>10. QED
    BY <1>6, <1>7, <1>8, <1>9

LEMMA AdvanceIs ==
  ASSUME TypeInv, Advance
  PROVE  pc'[Main] \in {"scan", "idle"} /\ \A u \in Tasks : u # Main => pc'[u] = pc[u]
  BY DEF Advance, TypeInv, TypeOK, Parsers

LEMMA FinishSerial ==
  ASSUME TypeInv, SerialInv, pc[Main] \in {"scan", "exec", "execDelayed"},
         slot[scan].valid, FinishInstant \/ FinishDelayed
  PROVE  SerialInv'
  <1> USE DEF SerialInv
  <1> DEFINE c == slot[scan]
  <1>1. scan \in Slots /\ scan \in Cells /\ c \in Slot /\ now \in Nat
    BY CellArithmetic, PoolAssumption DEF TypeInv, TypeOK
  <1>2. CASE FinishInstant
    BY <1>1, <1>2, RecycleSerial DEF FinishInstant
  <1>3. CASE /\ slot' = [slot EXCEPT ![scan] = Rearmed(c)]
             /\ Advance
             /\ UNCHANGED <<comIndex, allocated, now, parserVars, bin, bin2, posted,
                            overrun>>
    <2>1. Rearmed(c).valid = c.valid /\ Rearmed(c).data = c.data
          /\ (Complete(Rearmed(c)) <=> Complete(c))
          /\ \A g : AsSent(Rearmed(c), g) <=> AsSent(c, g)
      BY <1>1 DEF Rearmed, Slot, Complete, AsSent
    <2>2. slot'[scan] = Rearmed(c) /\ \A j \in Cells : j # scan => slot'[j] = slot[j]
      BY <1>1, <1>3, OneCell
    <2>3. pc'[Main] \in {"scan", "idle"}
      BY <1>3, AdvanceIs
    <2>4. Pointers' /\ Progress' /\ Held = {} /\ Held' = {}
      BY <1>3, <2>3, ScanSerial DEF parserVars
    <2>5. NoLeak'
      BY <1>1, <1>3, <2>1, <2>2 DEF NoLeak
    <2>6. Clean' /\ Good'
      BY <1>1, <1>3, <2>1, <2>2, <2>4, CellArithmetic DEF Clean, Good
    <2>7. Loop'
      BY <2>3 DEF Loop, Executing
    <2>8. QED
      BY <2>4, <2>5, <2>6, <2>7
  <1>4. QED
    BY <1>2, <1>3 DEF FinishDelayed, FinishInstant

\* Steps that only move the main task on.
LEMMA MoveSerial ==
  ASSUME TypeInv, SerialInv,
         pc[Main] \in {"idle", "ready", "scan"},
         pc'[Main] \in {"idle", "scan", "exec", "execDelayed"},
         UNCHANGED <<slot, allocated, com, com1, frame, posted, overrun>>,
         Executing' => scan' = scan /\ slot[scan].valid
  PROVE  SerialInv'
  <1> USE DEF SerialInv
  <1>1. Pointers' /\ Progress' /\ Held = {} /\ Held' = {}
    BY ScanSerial
  <1>2. NoLeak' /\ Clean' /\ Good'
    BY <1>1 DEF NoLeak, Clean, Good
  <1>3. Loop'
    BY DEF Loop
  <1>4. QED
    BY <1>1, <1>2, <1>3

LEMMA ServeSerial ==
  ASSUME TypeInv, SerialInv, Serve
  PROVE  SerialInv'
  <1>1. scan \in Slots /\ Main \in Parsers /\ pc \in [Parsers -> PC]
    BY DEF Parsers, TypeInv, TypeOK
  <1>2. CASE StartScan
    BY <1>1, <1>2, MoveSerial DEF StartScan, parserVars, history, Executing
  <1>3. CASE Pass
    BY <1>3, AdvanceIs, MoveSerial DEF Pass, parserVars, history, Executing
  <1>4. CASE Execute
    BY <1>1, <1>4, MoveSerial DEF Execute, parserVars, mainVars, history
  <1>5. CASE Cancel
    <2>1. PICK i \in Slots, j \in {None, scan} : StartRecycle(i, j)
      BY <1>1, <1>5 DEF Cancel, Named
    <2>2. QED
      BY <1>5, <2>1, RecycleSerial DEF Cancel
  <1>6. CASE Executed \/ ConditionUnmet \/ Discard
    <2>1. slot[scan].valid
      BY <1>6 DEF Executed, ConditionUnmet, Discard, SerialInv, Loop, Executing
    <2>2. QED
      BY <1>6, <2>1, FinishSerial DEF Executed, ConditionUnmet, Discard
  <1>7. CASE Recycle
    <2> USE DEF SerialInv
    <2>1. bin \in Slots /\ bin \in Cells /\ pc[Main] = "recycle" /\ slot[bin] \in Slot
      BY <1>7, CellArithmetic DEF Recycle, TypeInv, TypeOK, Holding
    <2>2. slot[bin].valid = FALSE
      BY <2>1 DEF Loop, Slot
    <2>3. Cleared(slot[bin]) = EmptySlot
      BY <2>1, <2>2, ClearedIs
    <2>4. slot'[bin] = EmptySlot /\ \A j \in Cells : j # bin => slot'[j] = slot[j]
      BY <1>7, <2>1, <2>3, OneCell DEF Recycle
    <2>5. pc'[Main] \in {"scan", "idle", "recycle2"}
          /\ (pc'[Main] = "recycle2" => scan' = scan)
      BY <1>1, <1>7, AdvanceIs DEF Recycle
    <2>6. UNCHANGED <<com, com1, frame, posted, overrun, bin2>>
          /\ allocated' = allocated \ {slot[bin].data}
      BY <1>7 DEF Recycle, Freed, parserVars, history
    <2>7. Pointers' /\ Progress' /\ Held = {} /\ Held' = {}
      BY <2>1, <2>5, <2>6, ScanSerial
    <2>8. NoLeak'
      BY <2>1, <2>4, <2>6 DEF NoLeak
    <2>9. Clean' /\ Good'
      BY <2>1, <2>4, <2>5, <2>6, <2>7, EmptyIs, CellArithmetic DEF Clean, Good
    <2>10. Loop'
      BY <2>1, <2>5, <2>6 DEF Loop, Executing
    <2>11. QED
      BY <2>7, <2>8, <2>9, <2>10
  <1>8. CASE RecycleNext
    <2>1. bin2 \in Slots
      BY <1>8 DEF RecycleNext, TypeInv, TypeOK, Holding
    <2>2. QED
      BY <1>8, <2>1, RecycleSerial DEF RecycleNext
  <1>9. QED
    BY <1>2, <1>3, <1>4, <1>5, <1>6, <1>7, <1>8 DEF Serve

LEMMA SerialStep ==
  ASSUME Tasks = {Main}, TypeInv, SerialInv, [Next]_vars
  PROVE  SerialInv'
  <1>1. CASE Obtain(Main)
    BY <1>1, ObtainSerial
  <1>2. CASE Parse(Main)
    <2>1. CASE Fill(Main)
      BY <2>1, FillSerial
    <2>2. CASE RejectShort(Main) \/ RejectNoMemory(Main)
      BY <2>2, RejectSerial DEF RejectShort, RejectNoMemory
    <2>3. CASE ParsePlain(Main) \/ ParseNoMemory(Main)
      BY <2>3, ParsedSerial DEF ParsePlain, ParseNoMemory
    <2>4. CASE ParsePayload(Main)
      BY <2>4, ParsedSerial DEF ParsePayload
    <2>5. CASE Split(Main)
      BY <2>5, SplitSerial
    <2>6. CASE Send(Main) \/ SendRefused(Main)
      BY <2>6, SendSerial
    <2>7. QED
      BY <1>2, <2>1, <2>2, <2>3, <2>4, <2>5, <2>6 DEF Parse
  <1>3. CASE Serve
    BY <1>3, ServeSerial
  <1>4. CASE Tick \/ UNCHANGED vars
    <2>1. UNCHANGED <<slot, allocated, pc, com, com1, frame, scan, bin, bin2, posted, overrun>>
      BY <1>4 DEF Tick, vars, parserVars, mainVars, history
    <2>2. QED
      BY <2>1 DEF SerialInv, NoLeak, Pointers, Parsing, Clean, Held, Good, Progress, Fills,
         Filling, Splitting, Sending, Loop, Executing
  <1>5. QED
    BY <1>1, <1>2, <1>3, <1>4 DEF Next

\* Where one task both parses and executes, no payload is lost whatever a frame
\* lacks or an allocation refuses, and what may be picked up is complete.
THEOREM CommandsAreWhole == ASSUME Tasks = {Main} PROVE Spec => []CommandsWhole
  <1>1. Init => SerialInv
    BY InitSerial
  <1>2. TypeInv /\ SerialInv /\ [Next]_vars => SerialInv'
    BY SerialStep
  <1>3. SerialInv => CommandsWhole
    BY DEF SerialInv, CommandsWhole, Good, ValidComplete, Complete
  <1>4. QED
    BY <1>1, <1>2, <1>3, TypeCorrect, PTL DEF Spec, TypeInv

-----------------------------------------------------------------------------
(* The times of the commands, as long as eccles_millis() does not wrap.      *)

\* No time and no delay of a frame reaches the wrap of the clock.
NoWrap ==
  /\ Horizon < Wrap
  /\ \A t \in Tasks : \A f \in Frames[t] : Horizon + f.delay < Wrap

\* The duration a slot notes is not before the time its command may run.
Timed(i) ==
  IF slot[i].duration = 0 THEN due[i] <= now ELSE due[i] <= slot[i].duration

Fits ==
  /\ \A i \in Cells : Horizon + slot[i].delay < Wrap
  /\ frame[Main] # None => Horizon + frame[Main].delay < Wrap

TimedInv ==
  /\ Fits
  /\ \A i \in Slots : Timed(i)
  /\ pc[Main] = "split" => Timed(com[Main])
  /\ pc[Main] = "recycle" => due[bin] = 0
  /\ Executing => due[scan] <= now

LEMMA TimeIs ==
  ASSUME NoWrap, TypeInv
  PROVE  /\ Millis = now
         /\ \A d \in Nat : Horizon + d < Wrap => After(d) = now + d
  <1>1. now \in 0 .. Horizon /\ Horizon \in Nat /\ Wrap \in Nat \ {0} /\ Horizon < Wrap
    BY PoolAssumption DEF NoWrap, TypeInv, TypeOK
  <1>2. Millis = now
    BY <1>1 DEF Millis
  <1>3. ASSUME NEW d \in Nat, Horizon + d < Wrap PROVE After(d) = now + d
    BY <1>1, <1>2, <1>3 DEF After
  <1>4. QED
    BY <1>2, <1>3

LEMMA InitTimed == ASSUME NoWrap, Init PROVE TimedInv
  <1>1. Main \in Parsers /\ Horizon \in Nat /\ Wrap \in Nat
    BY PoolAssumption DEF Parsers
  <1>2. QED
    BY <1>1, EmptyIs, CellArithmetic
       DEF Init, NoWrap, TimedInv, Fits, Timed, Executing

\* One cell is written, and the time of its command with it.
LEMMA OneTimed ==
  ASSUME TypeInv, TimedInv, NEW i \in Cells, NEW c, now' = now,
         slot' = [slot EXCEPT ![i] = c],
         \A j \in Cells : j # i => due'[j] = due[j],
         Horizon + c.delay < Wrap,
         i \in Slots => IF c.duration = 0 THEN due'[i] <= now ELSE due'[i] <= c.duration,
         frame'[Main] = None \/ frame'[Main] = frame[Main]
  PROVE  Fits' /\ (\A j \in Slots : Timed(j)') /\ slot'[i] = c
  <1>1. slot'[i] = c /\ \A j \in Cells : j # i => slot'[j] = slot[j]
    BY OneCell
  <1>2. Fits'
    BY <1>1 DEF TimedInv, Fits
  <1>3. ASSUME NEW j \in Slots PROVE Timed(j)'
    BY <1>1, CellArithmetic DEF TimedInv, Timed
  <1>4. QED
    BY <1>1, <1>2, <1>3

LEMMA ObtainTimed ==
  ASSUME NoWrap, Main \in Tasks, TypeInv, TimedInv, Obtain(Main)
  PROVE  TimedInv'
  <1>1. PICK f \in Frames[Main], s \in Cells \cup {None} :
          /\ pc' = [pc EXCEPT ![Main] = IF s = None THEN Rest(Main) ELSE "fill"]
          /\ frame' = [frame EXCEPT ![Main] = IF s = None THEN None ELSE f]
    BY DEF Obtain
  <1>2. UNCHANGED <<slot, now, due>>
    BY DEF Obtain
  <1>3. pc'[Main] \in {"ready", "fill"} /\ frame'[Main] \in {None, f}
    BY <1>1 DEF TypeInv, TypeOK, Parsers, Rest
  <1>4. QED
    BY <1>2, <1>3 DEF NoWrap, TimedInv, Fits, Timed, Executing

LEMMA ParseTimed ==
  ASSUME NoWrap, TypeInv, SerialInv, TimedInv, Parse(Main)
  PROVE  TimedInv'
  <1> DEFINE i == com[Main]
             f == frame[Main]
             c == slot[i]
  <1>1. /\ pc[Main] \in {"fill", "payload", "split", "send"}
        /\ i \in Cells /\ c \in Slot /\ f \in Frame /\ f # None
    BY DEF Parse, Fill, RejectShort, RejectNoMemory, ParsePlain, ParsePayload, ParseNoMemory,
       Split, Send, SendRefused, TypeInv, TypeOK, Holding, Parsers
  <1>2. Horizon + c.delay < Wrap /\ Horizon + f.delay < Wrap /\ now \in Nat
        /\ c.delay \in Nat /\ c.duration \in Nat /\ Horizon \in Nat /\ Wrap \in Nat
        /\ Horizon < Wrap
    BY <1>1, PoolAssumption DEF NoWrap, TimedInv, Fits, TypeInv, TypeOK, Slot
  <1>3. i \in Slots => IF c.duration = 0 THEN due[i] <= now ELSE due[i] <= c.duration
    BY DEF TimedInv, Timed
  <1>e. Horizon + EmptySlot.delay < Wrap
        /\ (i \in Slots => IF EmptySlot.duration = 0 THEN 0 <= now
                            ELSE 0 <= EmptySlot.duration)
    BY <1>2, EmptyIs
  <1>4. CASE Fill(Main)
    <2> DEFINE d == Filled(c, f)
    <2>1. slot' = [slot EXCEPT ![i] = d] /\ UNCHANGED <<now, due, frame>>
          /\ pc'[Main] = "payload"
      BY <1>4 DEF Fill, TypeInv, TypeOK, Parsers, parserVars, history
    <2>2. d.delay = f.delay /\ d.duration = c.duration
      BY <1>1, FilledIs
    <2> HIDE DEF d
    <2>3. Fits' /\ \A j \in Slots : Timed(j)'
      BY <1>1, <1>2, <1>3, <2>1, <2>2, OneTimed
    <2>4. QED
      BY <2>1, <2>3 DEF TimedInv, Executing
  <1>5. CASE RejectShort(Main) \/ RejectNoMemory(Main)
    <2>1. /\ slot' = [slot EXCEPT ![i] = EmptySlot] /\ now' = now
          /\ due'[i] = 0 /\ \A j \in Cells : j # i => due'[j] = due[j]
          /\ frame'[Main] = None /\ pc'[Main] = "ready"
      BY <1>1, <1>5 DEF RejectShort, RejectNoMemory, Reject, TypeInv, TypeOK, Parsers, Rest
    <2>2. Fits' /\ \A j \in Slots : Timed(j)'
      BY <1>1, <1>e, <2>1, OneTimed
    <2>3. QED
      BY <2>1, <2>2 DEF TimedInv, Executing
  <1>6. CASE ParsePlain(Main) \/ ParsePayload(Main) \/ ParseNoMemory(Main)
    <2>1. PICK size, data : Parsed(Main, size, data)
      BY <1>6 DEF ParsePlain, ParsePayload, ParseNoMemory
    <2> DEFINE d == Armed(c, f, size, data)
               e == IF c.delay > 0 THEN now + c.delay ELSE now
    <2>2. /\ slot' = [slot EXCEPT ![i] = d]
          /\ due'[i] = e /\ \A j \in Cells : j # i => due'[j] = due[j]
          /\ UNCHANGED <<now, com, frame>>
          /\ pc'[Main] = IF f.kind = "string" /\ OnFor(c) THEN "split" ELSE "send"
      BY <1>1, <2>1 DEF Parsed, TypeInv, TypeOK, Parsers, parserVars
    <2>3. d.delay = c.delay /\ d.duration = IF c.delay > 0 THEN After(c.delay) ELSE c.duration
      BY <1>1, ArmedIs
    <2>4. d.duration = IF c.delay > 0 THEN now + c.delay ELSE c.duration
      BY <1>2, <2>3, TimeIs
    <2> HIDE DEF d
    <2>5. i \in Slots => c.duration = 0
      <3>1. pc[Main] = "payload"
        BY <1>6 DEF ParsePlain, ParsePayload, ParseNoMemory
      <3>2. QED
        BY <1>1, <3>1, FilledIs, EmptyIs DEF SerialInv, Progress, Filling
    <2>6. c.delay > 0 => d.duration # 0 /\ e <= d.duration
      BY <1>2, <2>4
    <2>7. i \in Slots => IF d.duration = 0 THEN e <= now ELSE e <= d.duration
      BY <1>2, <2>4, <2>5
    <2> HIDE DEF e
    <2>8. Fits' /\ (\A j \in Slots : Timed(j)') /\ due'[i] = e /\ slot'[i] = d
      BY <1>1, <1>2, <2>2, <2>3, <2>7, OneTimed
    <2>9. pc'[Main] = "split" => Timed(com[Main])'
      BY <2>2, <2>6, <2>8 DEF Timed, OnFor
    <2>10. QED
      BY <2>2, <2>8, <2>9 DEF TimedInv, Executing
  <1>7. CASE Split(Main)
    <2>1. PICK s \in Cells \cup {None} :
            IF s = None THEN UNCHANGED <<slot, due>> ELSE HandOver(i, s)
      BY <1>7 DEF Split
    <2>2. UNCHANGED <<now, frame>> /\ pc[Main] = "split" /\ pc'[Main] = "send"
      BY <1>7 DEF Split, TypeInv, TypeOK, Parsers
    <2>3. CASE s = None
      BY <2>1, <2>2, <2>3 DEF TimedInv, Fits, Timed, Executing
    <2>4. CASE s # None
      <3>1. s \in Cells /\ HandOver(i, s)
        BY <2>1, <2>4
      <3>2. \A j \in Cells \ {i, s} : slot'[j] = slot[j]
        BY <1>1, <3>1, HandedOver
      <3>3. /\ slot'[i].delay = 0 /\ slot'[i].duration = 0
            /\ s # i => slot'[s].delay = c.delay /\ slot'[s].duration = c.duration
        BY <1>1, <3>1, HandedOver
      <3>4. /\ due'[i] = now /\ (s # i => due'[s] = due[i])
            /\ \A j \in Cells \ {i, s} : due'[j] = due[j]
        BY <1>1, <3>1 DEF HandOver, TypeInv, TypeOK
      <3>5. Timed(i)
        BY <2>2 DEF TimedInv
      <3>6. Fits'
        BY <1>1, <1>2, <2>2, <3>2, <3>3 DEF TimedInv, Fits
      <3>7. ASSUME NEW j \in Slots PROVE Timed(j)'
        <4>1. CASE j = i
          BY <1>2, <2>2, <3>3, <3>4, <4>1 DEF Timed
        <4>2. CASE j # i /\ j = s
          BY <2>2, <3>3, <3>4, <3>5, <4>2 DEF Timed
        <4>3. CASE j # i /\ j # s
          BY <2>2, <3>2, <3>4, <4>3, CellArithmetic DEF TimedInv, Timed
        <4>4. QED
          BY <4>1, <4>2, <4>3
      <3>8. QED
        BY <2>2, <3>6, <3>7 DEF TimedInv, Executing
    <2>5. QED
      BY <2>3, <2>4
  <1>8. CASE Send(Main) \/ SendRefused(Main)
    <2> DEFINE d == [c EXCEPT !.valid = TRUE]
    <2>1. d.delay = c.delay /\ d.duration = c.duration
      BY <1>1 DEF Slot
    <2>2. /\ \/ slot' = [slot EXCEPT ![i] = d] /\ due' = due
             \/ slot' = [slot EXCEPT ![i] = EmptySlot] /\ due'[i] = 0
          /\ \A j \in Cells : j # i => due'[j] = due[j]
          /\ now' = now /\ Release(Main)
      BY <1>1, <1>8 DEF Send, SendRefused, TypeInv, TypeOK
    <2>3. pc'[Main] \in {"ready", "send"} /\ frame'[Main] \in {None, f}
      BY <2>2 DEF Release, Rest, TypeInv, TypeOK, Parsers
    <2> HIDE DEF d
    <2>4. ASSUME slot' = [slot EXCEPT ![i] = d], due' = due
          PROVE  Fits' /\ \A j \in Slots : Timed(j)'
      BY <1>1, <1>2, <1>3, <2>1, <2>2, <2>3, <2>4, OneTimed
    <2>5. ASSUME slot' = [slot EXCEPT ![i] = EmptySlot], due'[i] = 0
          PROVE  Fits' /\ \A j \in Slots : Timed(j)'
      BY <1>1, <1>e, <2>2, <2>3, <2>5, OneTimed
    <2>6. Fits' /\ \A j \in Slots : Timed(j)'
      BY <2>2, <2>4, <2>5
    <2>7. QED
      BY <2>3, <2>6 DEF TimedInv, Executing
  <1>9. QED
    BY <1>4, <1>5, <1>6, <1>7, <1>8 DEF Parse

LEMMA RecycleTimed ==
  ASSUME TypeInv, TimedInv, NEW i \in Slots, NEW j, StartRecycle(i, j),
         UNCHANGED <<now, parserVars>>
  PROVE  TimedInv'
  <1> DEFINE c == [slot[i] EXCEPT !.valid = FALSE]
  <1>1. i \in Cells /\ slot[i] \in Slot /\ now \in Nat
    BY CellArithmetic, PoolAssumption DEF TypeInv, TypeOK
  <1>2. c.delay = slot[i].delay /\ c.duration = slot[i].duration /\ c.duration \in Nat
    BY <1>1 DEF Slot
  <1>3. /\ slot' = [slot EXCEPT ![i] = c]
        /\ due'[i] = 0 /\ \A n \in Cells : n # i => due'[n] = due[n]
        /\ pc'[Main] = "recycle" /\ bin' = i /\ UNCHANGED <<now, frame>>
    BY <1>1 DEF StartRecycle, Invalidate, TypeInv, TypeOK, Parsers, parserVars
  <1>4. Horizon + c.delay < Wrap
        /\ (IF c.duration = 0 THEN due'[i] <= now ELSE due'[i] <= c.duration)
    BY <1>1, <1>2, <1>3 DEF TimedInv, Fits
  <1> HIDE DEF c
  <1>5. Fits' /\ \A n \in Slots : Timed(n)'
    BY <1>1, <1>2, <1>3, <1>4, OneTimed
  <1>6. QED
    BY <1>3, <1>5 DEF TimedInv, Executing

LEMMA FinishTimed ==
  ASSUME NoWrap, TypeInv, TimedInv, FinishInstant \/ FinishDelayed
  PROVE  TimedInv'
  <1> DEFINE c == slot[scan]
  <1>1. scan \in Slots /\ scan \in Cells /\ c \in Slot /\ now \in Nat
        /\ c.delay \in Nat /\ c.interval \in Nat
    BY CellArithmetic, PoolAssumption DEF TypeInv, TypeOK, Slot
  <1>2. CASE FinishInstant
    BY <1>1, <1>2, RecycleTimed DEF FinishInstant
  <1>3. CASE /\ slot' = [slot EXCEPT ![scan] = Rearmed(c)]
             /\ due' = [due EXCEPT ![scan] = now + c.delay]
             /\ Advance
             /\ UNCHANGED <<comIndex, allocated, now, parserVars, bin, bin2, posted,
                            overrun>>
    <2>0. due'[scan] = now + c.delay /\ \A j \in Cells : j # scan => due'[j] = due[j]
      BY <1>1, <1>3 DEF TypeInv, TypeOK
    <2>1. Horizon + c.delay < Wrap
      BY <1>1 DEF TimedInv, Fits
    <2>2. Rearmed(c).delay = c.delay /\ Rearmed(c).duration = now + c.delay
      BY <1>1, <2>1, TimeIs DEF Rearmed, Slot
    <2>3. pc'[Main] \in {"scan", "idle"} /\ UNCHANGED <<now, frame>>
      BY <1>3, AdvanceIs DEF parserVars
    <2>4. IF now + c.delay = 0 THEN now + c.delay <= now ELSE now + c.delay <= now + c.delay
      BY <1>1
    <2>5. Fits' /\ \A j \in Slots : Timed(j)'
      BY <1>1, <1>3, <2>0, <2>1, <2>2, <2>3, <2>4, OneTimed
    <2>6. QED
      BY <2>3, <2>5 DEF TimedInv, Executing
  <1>4. QED
    BY <1>2, <1>3 DEF FinishDelayed, FinishInstant

LEMMA ServeTimed ==
  ASSUME NoWrap, TypeInv, TimedInv, Serve
  PROVE  TimedInv'
  <1>1. scan \in Slots /\ scan \in Cells /\ pc \in [Parsers -> PC] /\ Main \in Parsers
        /\ slot[scan].duration \in Nat /\ now \in Nat
    BY CellArithmetic, PoolAssumption DEF TypeInv, TypeOK, Parsers, Slot
  <1>2. CASE StartScan \/ Pass
    <2>1. pc'[Main] \in {"scan", "idle"} /\ UNCHANGED <<slot, now, frame, due>>
      BY <1>1, <1>2, AdvanceIs DEF StartScan, Pass, parserVars, history
    <2>2. QED
      BY <2>1 DEF TimedInv, Fits, Timed, Executing
  <1>3. CASE Execute
    <2>1. pc'[Main] \in {"exec", "execDelayed"} /\ UNCHANGED <<slot, now, frame, due, scan>>
          /\ (Instant(slot[scan]) \/ Reached(slot[scan]))
      BY <1>1, <1>3 DEF Execute, parserVars, mainVars, history
    <2>2. Timed(scan)
      BY <1>1 DEF TimedInv
    <2>3. due[scan] <= now
      <3>1. CASE slot[scan].duration = 0
        BY <2>2, <3>1 DEF Timed
      <3>2. CASE slot[scan].duration # 0
        <4>1. slot[scan].duration <= now
          BY <2>1, <3>2, TimeIs DEF Instant, Reached
        <4>2. due[scan] <= slot[scan].duration /\ due[scan] \in Nat
          BY <1>1, <2>2, <3>2 DEF Timed, TypeInv, TypeOK
        <4>3. QED
          BY <1>1, <4>1, <4>2
      <3>3. QED
        BY <3>1, <3>2
    <2>4. QED
      BY <2>1, <2>3 DEF TimedInv, Fits, Timed, Executing
  <1>4. CASE Cancel
    <2>1. PICK i \in Slots, j \in {None, scan} : StartRecycle(i, j)
      BY <1>1, <1>4 DEF Cancel, Named
    <2>2. QED
      BY <1>4, <2>1, RecycleTimed DEF Cancel
  <1>5. CASE Executed \/ ConditionUnmet \/ Discard
    BY <1>5, FinishTimed DEF Executed, ConditionUnmet, Discard
  <1>6. CASE Recycle
    <2> DEFINE c == Cleared(slot[bin])
    <2>1. bin \in Cells /\ pc[Main] = "recycle" /\ due[bin] = 0
      BY <1>6, CellArithmetic DEF Recycle, TypeInv, TypeOK, Holding, TimedInv
    <2>2. c.delay = 0 /\ c.duration = 0
      BY DEF Cleared, EmptySlot
    <2>3. slot' = [slot EXCEPT ![bin] = c] /\ UNCHANGED <<now, due, frame>>
      BY <1>6 DEF Recycle, parserVars, history
    <2>4. pc'[Main] \in {"scan", "idle", "recycle2"}
      BY <1>1, <1>6, AdvanceIs DEF Recycle
    <2>5. Horizon + 0 < Wrap /\ 0 <= now
      BY <1>1, PoolAssumption DEF NoWrap
    <2> HIDE DEF c
    <2>6. Fits' /\ \A j \in Slots : Timed(j)'
      BY <1>1, <2>1, <2>2, <2>3, <2>5, OneTimed
    <2>7. QED
      BY <2>4, <2>6 DEF TimedInv, Executing
  <1>7. CASE RecycleNext
    <2>1. bin2 \in Slots
      BY <1>7 DEF RecycleNext, TypeInv, TypeOK, Holding
    <2>2. QED
      BY <1>7, <2>1, RecycleTimed DEF RecycleNext
  <1>8. QED
    BY <1>2, <1>3, <1>4, <1>5, <1>6, <1>7 DEF Serve

LEMMA TimedStep ==
  ASSUME NoWrap, Tasks = {Main}, TypeInv, SerialInv, TimedInv, [Next]_vars
  PROVE  TimedInv'
  <1>1. CASE Obtain(Main)
    BY <1>1, ObtainTimed
  <1>2. CASE Parse(Main)
    BY <1>2, ParseTimed
  <1>3. CASE Serve
    BY <1>3, ServeTimed
  <1>4. CASE Tick \/ UNCHANGED vars
    <2>1. UNCHANGED <<slot, pc, com, frame, scan, bin, due>> /\ now' \in {now, now + 1}
      BY <1>4 DEF Tick, vars, parserVars, mainVars, history
    <2>2. now \in Nat /\ due \in [Cells -> Nat] /\ scan \in Cells
          /\ (pc[Main] = "split" => com[Main] \in Cells)
      BY PoolAssumption, CellArithmetic DEF TypeInv, TypeOK, Holding, Parsers
    <2>3. \A i \in Cells : Timed(i) => Timed(i)'
      BY <2>1, <2>2 DEF Timed
    <2>4. Fits' /\ (\A i \in Slots : Timed(i)') /\ (pc'[Main] = "recycle" => due'[bin'] = 0)
      BY <2>1, <2>3, CellArithmetic DEF TimedInv, Fits
    <2>5. pc'[Main] = "split" => Timed(com[Main])'
      BY <2>1, <2>2, <2>3 DEF TimedInv, Timed
    <2>6. Executing' => due'[scan'] <= now'
      BY <2>1, <2>2 DEF TimedInv, Executing
    <2>7. QED
      BY <2>4, <2>5, <2>6 DEF TimedInv
  <1>5. QED
    BY <1>1, <1>2, <1>3, <1>4 DEF Next

\* Where one task both parses and executes and the clock does not wrap, what is
\* executed is what was sent, and neither it nor a repetition comes before its
\* delay is over.
THEOREM ExecutedIsRight ==
  ASSUME Tasks = {Main}, NoWrap
  PROVE  Spec => []ExecutedRight
  <1>1. Init => SerialInv /\ TimedInv
    BY InitSerial, InitTimed
  <1>2. TypeInv /\ SerialInv /\ TimedInv /\ [Next]_vars => SerialInv' /\ TimedInv'
    BY SerialStep, TimedStep
  <1>3. TypeInv /\ SerialInv /\ TimedInv => ExecutedRight
    <2>1. ASSUME TypeInv, SerialInv, Executing PROVE ExecutedAsSent
      <3>1. scan \in Slots /\ slot[scan].valid
        BY <2>1 DEF SerialInv, Loop, TypeInv, TypeOK
      <3>2. posted[scan] # None /\ AsSent(slot[scan], posted[scan])
        BY <2>1, <3>1 DEF SerialInv, Good
      <3>3. QED
        BY <3>2 DEF ExecutedAsSent, AsSent
    <2>2. TimedInv => NotEarly
      BY DEF TimedInv, NotEarly
    <2>3. QED
      BY <2>1, <2>2 DEF ExecutedRight, ExecutedAsSent
  <1>4. QED
    BY <1>1, <1>2, <1>3, TypeCorrect, PTL DEF Spec, TypeInv

-----------------------------------------------------------------------------
(* What waits and what is executed, with one parsing task: the main task, or  *)
(* the web server's beside it.                                               *)

\* A step that frees a pending slot is the main task's, and for a reason.
Kept ==
  \A i \in Slots : slot[i].valid /\ ~slot'[i].valid =>
    /\ pc[Main] \in {"scan", "exec", "execDelayed", "recycle2"}
    /\ \/ i = scan
       \/ /\ slot[scan].action = "CANCEL"
          /\ slot[scan].id = slot[i].id /\ slot[i].id # 0

\* A step in which the main task goes on executing leaves the slot alone.
Still == Executing /\ Executing' => slot'[scan] = slot[scan]

Busy ==
  /\ Executing => slot[scan].valid
  /\ pc[Main] \in {"recycle", "recycle2"} => bin2 \in {None, scan}

\* The web server's task beside the main task: its commands are not split, and
\* the slot it fills is not valid before it sends it.
WebInv(t) ==
  /\ com1[t] = None /\ pc[t] # "split"
  /\ frame[t] # None => frame[t].kind = "binary"
  /\ com[t] \in Slots => ~slot[com[t]].valid
  /\ Busy

\* A parse writes to the cell it holds.
LEMMA ParseWrites ==
  ASSUME NEW t \in Tasks, TypeInv, Parse(t), ~Split(t)
  PROVE  /\ com[t] \in Cells
         /\ \A j \in Cells : j # com[t] => slot'[j] = slot[j]
         /\ slot'[com[t]].valid => slot[com[t]].valid \/ Send(t)
         /\ Send(t) => slot'[com[t]].valid
         /\ UNCHANGED <<scan, bin, bin2>>
  <1> DEFINE i == com[t]
             c == slot[i]
  <1>1. i \in Cells /\ c \in Slot /\ frame[t] \in Frame
    BY DEF Parse, Fill, RejectShort, RejectNoMemory, ParsePlain, ParsePayload, ParseNoMemory,
       Split, Send, SendRefused, TypeInv, TypeOK, Holding, Parsers
  <1>2. UNCHANGED <<scan, bin, bin2>>
    BY DEF Parse, Fill, RejectShort, RejectNoMemory, Reject, ParsePlain, ParsePayload,
       ParseNoMemory, Parsed, Send, SendRefused, mainVars
  <1>3. CASE Fill(t)
    <2>1. Filled(c, frame[t]).valid = c.valid
      BY <1>1, FilledIs
    <2>2. QED
      BY <1>1, <1>2, <1>3, <2>1, OneCell DEF Fill, Send
  <1>4. CASE RejectShort(t) \/ RejectNoMemory(t) \/ SendRefused(t)
    BY <1>1, <1>2, <1>4, EmptyIs, OneCell
       DEF RejectShort, RejectNoMemory, Reject, SendRefused, Send
  <1>5. CASE ParsePlain(t) \/ ParsePayload(t) \/ ParseNoMemory(t)
    <2>1. PICK size, data : slot' = [slot EXCEPT ![i] = Armed(c, frame[t], size, data)]
      BY <1>5 DEF ParsePlain, ParsePayload, ParseNoMemory, Parsed
    <2>2. Armed(c, frame[t], size, data).valid = c.valid
      BY <1>1, ArmedIs
    <2>3. ~Send(t)
      BY <1>5 DEF ParsePlain, ParsePayload, ParseNoMemory, Send
    <2>4. QED
      BY <1>1, <1>2, <2>1, <2>2, <2>3, OneCell
  <1>6. CASE Send(t)
    <2> DEFINE d == [c EXCEPT !.valid = TRUE]
    <2>1. slot' = [slot EXCEPT ![i] = d] /\ d.valid
      BY <1>1, <1>6 DEF Send, Slot
    <2>2. QED
      BY <1>1, <1>2, <1>6, <2>1, OneCell
  <1>7. QED
    BY <1>3, <1>4, <1>5, <1>6 DEF Parse

LEMMA RecycleKeeps ==
  ASSUME TypeInv, NEW i \in Slots, NEW j \in {None, scan}, StartRecycle(i, j)
  PROVE  /\ \A n \in Slots : n # i => slot'[n] = slot[n]
         /\ ~slot'[i].valid /\ pc'[Main] = "recycle" /\ Busy'
         /\ \A u \in Tasks : u # Main => pc'[u] = pc[u]
  <1> DEFINE c == [slot[i] EXCEPT !.valid = FALSE]
  <1>1. i \in Cells /\ slot[i] \in Slot
    BY CellArithmetic DEF TypeInv, TypeOK
  <1>2. slot' = [slot EXCEPT ![i] = c] /\ ~c.valid
    BY <1>1 DEF StartRecycle, Invalidate, Slot
  <1>3. slot'[i] = c /\ \A n \in Slots : n # i => slot'[n] = slot[n]
    BY <1>1, <1>2, OneCell
  <1>4. pc'[Main] = "recycle" /\ bin2' = j /\ scan' = scan
        /\ \A u \in Tasks : u # Main => pc'[u] = pc[u]
    BY DEF StartRecycle, TypeInv, TypeOK, Parsers
  <1>5. QED
    BY <1>2, <1>3, <1>4 DEF Busy, Executing

\* The main task frees the slot at its index, or those a cancel command names.
LEMMA ServeKeeps ==
  ASSUME TypeInv, Busy, Serve
  PROVE  /\ Kept /\ Still /\ Busy'
         /\ \A i \in Slots : slot'[i].valid => slot[i].valid
         /\ \A u \in Tasks : u # Main => pc'[u] = pc[u]
         /\ UNCHANGED <<com, com1, frame>>
  <1>1. scan \in Slots /\ scan \in Cells /\ Main \in Parsers /\ pc \in [Parsers -> PC]
        /\ slot[scan] \in Slot
    BY CellArithmetic DEF Parsers, TypeInv, TypeOK
  <1>2. UNCHANGED <<com, com1, frame>>
    BY DEF Serve, StartScan, Pass, Cancel, Execute, Executed, FinishDelayed, FinishInstant,
       ConditionUnmet, Discard, Recycle, RecycleNext, parserVars
  <1>3. CASE StartScan \/ Pass \/ Execute
    <2>1. UNCHANGED slot /\ pc'[Main] \in {"scan", "idle", "exec", "execDelayed"}
          /\ ~Executing /\ \A u \in Tasks : u # Main => pc'[u] = pc[u]
      <3>1. CASE StartScan \/ Execute
        BY <1>1, <3>1 DEF StartScan, Execute, Executing, Parsers
      <3>2. CASE Pass
        BY <3>2, AdvanceIs DEF Pass, Executing
      <3>3. QED
        BY <1>3, <3>1, <3>2
    <2>2. Executing' => scan' = scan /\ slot[scan].valid
      BY <1>1, <1>3, AdvanceIs DEF StartScan, Pass, Execute, Executing, mainVars
    <2>3. QED
      BY <1>2, <2>1, <2>2 DEF Kept, Still, Busy, Executing
  <1>4. CASE Cancel
    <2>1. PICK i \in Slots, j \in {None, scan} :
            /\ StartRecycle(i, j)
            /\ i = scan \/ (slot[i].id = slot[scan].id /\ slot[scan].id # 0)
      BY <1>1, <1>4 DEF Cancel, Named
    <2>2. pc[Main] = "scan" /\ slot[scan].action = "CANCEL"
      BY <1>4 DEF Cancel
    <2>3. QED
      BY <1>2, <2>1, <2>2, RecycleKeeps DEF Kept, Still, Executing
  <1>5. CASE Executed \/ ConditionUnmet \/ Discard
    <2>1. pc[Main] \in {"scan", "exec", "execDelayed"} /\ slot[scan].valid
          /\ (FinishInstant \/ FinishDelayed)
      BY <1>5 DEF Executed, ConditionUnmet, Discard, Busy, Executing
    <2>2. CASE FinishInstant
      BY <1>1, <1>2, <2>1, <2>2, RecycleKeeps DEF FinishInstant, Kept, Still, Executing
    <2>3. CASE slot' = [slot EXCEPT ![scan] = Rearmed(slot[scan])] /\ Advance
      <3>1. Rearmed(slot[scan]).valid = slot[scan].valid
        BY <1>1 DEF Rearmed, Slot
      <3>2. \A n \in Slots : slot'[n].valid = slot[n].valid
        BY <1>1, <2>3, <3>1, OneCell
      <3>3. pc'[Main] \in {"scan", "idle"} /\ \A u \in Tasks : u # Main => pc'[u] = pc[u]
        BY <1>1, <2>3, AdvanceIs DEF Advance
      <3>4. QED
        BY <1>2, <3>2, <3>3 DEF Kept, Still, Busy, Executing
    <2>4. QED
      BY <2>1, <2>2, <2>3 DEF FinishDelayed
  <1>6. CASE Recycle
    <2>1. bin \in Cells /\ slot[bin] \in Slot /\ pc[Main] = "recycle"
      BY <1>6, CellArithmetic DEF Recycle, TypeInv, TypeOK, Holding
    <2>2. Cleared(slot[bin]).valid = slot[bin].valid
      BY DEF Cleared, EmptySlot
    <2>3. \A n \in Slots : slot'[n].valid = slot[n].valid
      BY <1>6, <2>1, <2>2, OneCell DEF Recycle
    <2>4. pc'[Main] \in {"scan", "idle", "recycle2"} /\ bin2' = bin2
          /\ (pc'[Main] = "recycle2" => scan' = scan)
          /\ \A u \in Tasks : u # Main => pc'[u] = pc[u]
      <3>1. CASE bin2 = None
        BY <1>6, <3>1, AdvanceIs DEF Recycle
      <3>2. CASE bin2 # None
        BY <1>1, <1>6, <3>2 DEF Recycle, Parsers
      <3>3. QED
        BY <3>1, <3>2
    <2>5. QED
      BY <1>2, <2>1, <2>3, <2>4 DEF Kept, Still, Busy, Executing
  <1>7. CASE RecycleNext
    <2>1. bin2 \in Slots /\ bin2 = scan /\ pc[Main] = "recycle2"
      BY <1>7 DEF RecycleNext, TypeInv, TypeOK, Holding, Busy
    <2>2. QED
      BY <1>2, <1>7, <2>1, RecycleKeeps DEF RecycleNext, Kept, Still, Executing
  <1>8. QED
    BY <1>3, <1>4, <1>5, <1>6, <1>7 DEF Serve

LEMMA SerialKeeps ==
  ASSUME Tasks = {Main}, TypeInv, SerialInv, [Next]_vars
  PROVE  Kept /\ Still
  <1>1. CASE Serve
    BY <1>1, ServeKeeps DEF SerialInv, Loop, Busy
  <1>2. CASE Obtain(Main) \/ Tick \/ UNCHANGED vars
    BY <1>2 DEF Obtain, Tick, vars, Kept, Still
  <1>3. CASE Parse(Main)
    <2>1. ~Executing
      BY <1>3 DEF Parse, Fill, RejectShort, RejectNoMemory, ParsePlain, ParsePayload,
         ParseNoMemory, Split, Send, SendRefused, Executing
    <2>2. CASE Split(Main)
      <3>1. PICK s \in Cells \cup {None} :
              IF s = None THEN UNCHANGED <<slot, due>> ELSE HandOver(com[Main], s)
        BY <2>2 DEF Split
      <3>2. com[Main] \in Cells
        BY <2>2 DEF Split, TypeInv, TypeOK, Holding, Parsers
      <3>3. \A i \in Slots : slot'[i].valid = slot[i].valid
        BY <3>1, <3>2, HandedOver, CellArithmetic
      <3>4. QED
        BY <2>1, <3>3 DEF Kept, Still
    <2>3. CASE ~Split(Main)
      <3>1. com[Main] \in Slots /\ slot[com[Main]].valid => slot'[com[Main]].valid
        <4>1. SUFFICES ASSUME com[Main] \in Slots, slot[com[Main]].valid
                       PROVE  Send(Main)
          BY <1>3, <2>3, ParseWrites
        <4>2. Complete(slot[com[Main]])
          BY <4>1 DEF SerialInv, Good
        <4>3. pc[Main] \notin {"fill", "payload"}
          BY <4>1, FilledIs, EmptyIs
             DEF SerialInv, Progress, Fills, Filling, TypeInv, TypeOK, Holding, Parsers
        <4>4. QED
          BY <1>3, <2>3, <4>2, <4>3 DEF Parse, Fill, RejectShort, RejectNoMemory, ParsePlain,
             ParsePayload, ParseNoMemory, SendRefused
      <3>2. \A j \in Slots : j # com[Main] => slot'[j] = slot[j]
        BY <1>3, <2>3, ParseWrites, CellArithmetic
      <3>3. QED
        BY <2>1, <3>1, <3>2 DEF Kept, Still
    <2>4. QED
      BY <2>2, <2>3
  <1>4. QED
    BY <1>1, <1>2, <1>3 DEF Next

LEMMA WebStep ==
  ASSUME NEW t \in Tasks, Tasks = {t}, t # Main, \A f \in Frames[t] : f.kind = "binary",
         TypeInv, WebInv(t), [Next]_vars
  PROVE  WebInv(t)' /\ Kept /\ Still
  <1>1. CASE Serve
    BY <1>1, ServeKeeps DEF WebInv
  <1>2. CASE Tick \/ UNCHANGED vars
    BY <1>2 DEF Tick, vars, parserVars, mainVars, WebInv, Busy, Executing, Kept, Still
  <1>3. CASE Obtain(t)
    <2>1. PICK f \in Frames[t], s \in Cells \cup {None}, k \in Cells :
            /\ Obtained(s, k)
            /\ pc' = [pc EXCEPT ![t] = IF s = None THEN Rest(t) ELSE "fill"]
            /\ com' = [com EXCEPT ![t] = s]
            /\ frame' = [frame EXCEPT ![t] = IF s = None THEN None ELSE f]
      BY <1>3 DEF Obtain
    <2>2. UNCHANGED <<slot, com1, scan, bin, bin2>>
      BY <1>3 DEF Obtain, mainVars
    <2>3. pc'[t] \in {"idle", "fill"} /\ pc'[Main] = pc[Main] /\ com'[t] = s
          /\ frame'[t] \in {None, f}
      BY <2>1 DEF TypeInv, TypeOK, Parsers, Rest
    <2>4. s \in Slots => ~slot[s].valid
      BY <2>1, ObtainedFree
    <2>5. QED
      BY <2>2, <2>3, <2>4 DEF WebInv, Busy, Executing, Kept, Still
  <1>4. CASE Parse(t)
    <2>1. ~Split(t) /\ pc[t] # "split"
      BY DEF WebInv, Split
    <2>2. com[t] \in Cells /\ frame[t] # None
      BY <1>4, <2>1 DEF Parse, Fill, RejectShort, RejectNoMemory, ParsePlain, ParsePayload,
         ParseNoMemory, Send, SendRefused, TypeInv, TypeOK, Holding, Parsers
    <2>3. /\ pc'[Main] = pc[Main] /\ com1'[t] = None
          /\ pc'[t] \in {"payload", "send", "idle"}
          /\ frame'[t] \in {None, frame[t]}
          /\ com'[t] = com[t] \/ com'[t] = None
          /\ Send(t) => com'[t] = None
      <3>1. frame[t].kind = "binary" /\ com1[t] = None /\ t \in Parsers /\ Main \in Parsers
        BY <2>2 DEF WebInv, Parsers
      <3>2. CASE Fill(t)
        BY <3>1, <3>2 DEF Fill, Send, parserVars, TypeInv, TypeOK
      <3>3. CASE RejectShort(t) \/ RejectNoMemory(t)
        BY <3>1, <3>3 DEF RejectShort, RejectNoMemory, Reject, Send, Rest, TypeInv, TypeOK
      <3>4. CASE ParsePlain(t) \/ ParsePayload(t) \/ ParseNoMemory(t)
        BY <3>1, <3>4 DEF ParsePlain, ParsePayload, ParseNoMemory, Parsed, Send, parserVars,
           TypeInv, TypeOK
      <3>5. CASE Send(t) \/ SendRefused(t)
        BY <3>1, <3>5 DEF Send, SendRefused, Release, Rest, TypeInv, TypeOK
      <3>6. QED
        BY <1>4, <2>1, <3>2, <3>3, <3>4, <3>5 DEF Parse
    <2>4. /\ \A j \in Slots : j # com[t] => slot'[j] = slot[j]
          /\ slot'[com[t]].valid => slot[com[t]].valid \/ Send(t)
          /\ UNCHANGED <<scan, bin, bin2>>
      BY <1>4, <2>1, ParseWrites, CellArithmetic
    <2>5. scan \in Slots
      BY DEF TypeInv, TypeOK
    <2>6. Kept /\ Still
      BY <2>4, <2>5 DEF WebInv, Busy, Kept, Still
    <2>7. Busy'
      BY <2>3, <2>4, <2>5 DEF WebInv, Busy, Executing
    <2>8. com'[t] \in Slots => ~slot'[com'[t]].valid
      BY <2>3, <2>4, CellArithmetic DEF WebInv
    <2>9. QED
      BY <2>3, <2>6, <2>7, <2>8 DEF WebInv
  <1>5. QED
    BY <1>1, <1>2, <1>3, <1>4 DEF Next

\* With one parsing task beside the main task (the web server's, whose binary
\* commands are never split), or with the main task parsing itself, what is
\* executed does not change meanwhile, and what waits stays until the main task
\* is done with it or a cancel command names it.
THEOREM PickedIsKept ==
  ASSUME NEW t \in Tasks, Tasks = {t},
         t = Main \/ \A f \in Frames[t] : f.kind = "binary"
  PROVE  Spec => PickedStays
  <1> DEFINE KeptBody == \A i \in Slots : slot[i].valid /\ ~slot'[i].valid =>
               /\ pc[Main] \in {"scan", "exec", "execDelayed", "recycle2"}
               /\ \/ i = scan
                  \/ /\ slot[scan].action = "CANCEL"
                     /\ slot[scan].id = slot[i].id /\ slot[i].id # 0
             StillBody == Executing /\ Executing' => slot'[scan] = slot[scan]
  <1>1. CASE t = Main
    <2>1. Init => SerialInv
      BY InitSerial
    <2>2. TypeInv /\ SerialInv /\ [Next]_vars =>
            SerialInv' /\ [KeptBody]_vars /\ [StillBody]_vars
      BY <1>1, SerialStep, SerialKeeps DEF Kept, Still
    <2>3. QED
      BY <2>1, <2>2, TypeCorrect, PTL
         DEF Spec, TypeInv, PickedStays, ExecutedIsStable, PendingKept
  <1>2. CASE t # Main
    <2>1. Init => WebInv(t)
      BY CellArithmetic DEF Init, WebInv, Busy, Executing, Parsers
    <2>2. TypeInv /\ WebInv(t) /\ [Next]_vars =>
            WebInv(t)' /\ [KeptBody]_vars /\ [StillBody]_vars
      BY <1>2, WebStep DEF Kept, Still
    <2>3. QED
      BY <2>1, <2>2, TypeCorrect, PTL
         DEF Spec, TypeInv, PickedStays, ExecutedIsStable, PendingKept
  <1>3. QED
    BY <1>1, <1>2

\* Executor.cpp:36-57, 159-230: what was sent is not lost to a later parse, whether
\* it waits for its time, for its next repetition or for the scan.
THEOREM PendingIsKept ==
  ASSUME NEW t \in Tasks, Tasks = {t},
         t = Main \/ \A f \in Frames[t] : f.kind = "binary"
  PROVE  Spec => PendingKept
  BY PickedIsKept, PTL DEF PickedStays
=============================================================================
