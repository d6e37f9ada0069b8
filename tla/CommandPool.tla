----------------------------- MODULE CommandPool -----------------------------
(***************************************************************************)
(* The command pool of the firmware (Executor.cpp, Executor.h).            *)
(*                                                                         *)
(* A fixed array of MAX_COMMANDS commands is shared by the tasks that      *)
(* parse commands (the web server task, and the main task for the serial   *)
(* line and for monitors) and by the main task, which scans the array and  *)
(* executes what is valid.  Only obtainCommand and send take the mutex:    *)
(* filling a slot, recycling it and scanning the array are unlocked, so    *)
(* each of those is a step of its own here.                                *)
(*                                                                         *)
(* Time is in seconds; eccles_millis() is the true time modulo Wrap.       *)
(***************************************************************************)
EXTENDS Naturals

CONSTANTS
  MAX_COMMANDS, (* the number of commands in the pool                       *)
  Tasks,        (* the tasks that parse commands                            *)
  Main,         (* the main task, the only one that executes                *)
  Frames,       (* Frames[t]: what task t may be asked to parse             *)
  Blocks,       (* the buffers e_malloc can hand out for payloads           *)
  None,         (* no slot, no buffer, no frame                             *)
  Wrap,         (* eccles_millis() wraps here (2^32 ms in the code)         *)
  Horizon,      (* bound: the clock stops here                              *)
  UNLIMITED     (* the interval documented as "unlimited" (100)             *)

Actions == {"NO_OP", "CANCEL", "ON", "OFF", "TOGGLE", "OTHER"}
Targets == {"UNKNOWN", "DEVICE"}

Slots  == 0 .. MAX_COMMANDS - 1
Beyond == MAX_COMMANDS         \* the memory right after the array
Cells  == Slots \cup {Beyond}

Frame == [kind : {"binary", "string"}, id : Nat, action : Actions,
          target : Targets, delay : Nat, interval : Nat, size : Nat,
          whole : BOOLEAN, cond : BOOLEAN]

ASSUME PoolAssumption ==
  /\ MAX_COMMANDS \in Nat \ {0}
  /\ Frames \in [Tasks -> SUBSET Frame]
  /\ None \notin Blocks /\ None \notin Nat /\ None \notin Frame
  /\ Wrap \in Nat \ {0} /\ Horizon \in Nat /\ UNLIMITED \in Nat

VARIABLES
  slot,       \* the array, and the memory after it that comIndex can reach
  comIndex,   \* the static cursor of obtainCommand
  allocated,  \* the payload buffers e_malloc has handed out
  now,        \* true time
  pc,         \* where each task is
  com, com1,  \* the Command pointers a parsing task holds
  frame,      \* what each task is parsing
  scan,       \* the index of the main task's loop over the array
  bin, bin2,  \* slots the main task is recycling, and recycles next
  due,        \* history: when the command in a slot may run, without wrap
  posted,     \* history: the frame a slot's command was sent for
  overrun     \* history: memory beyond the array was handed out

parserVars == <<com, com1, frame>>
mainVars   == <<scan, bin, bin2>>
history    == <<due, posted, overrun>>
vars == <<slot, comIndex, allocated, now, pc, parserVars, mainVars, history>>

Slot == [valid : BOOLEAN, id : Nat, action : Actions, target : Targets,
         delay : Nat, interval : Nat, duration : Nat, size : Nat,
         data : Blocks \cup {None}, cond : BOOLEAN]

EmptySlot == [valid |-> FALSE, id |-> 0, action |-> "NO_OP",
              target |-> "UNKNOWN", delay |-> 0, interval |-> 0,
              duration |-> 0, size |-> 0, data |-> None, cond |-> FALSE]

Millis == now % Wrap
After(delay) == (Millis + delay) % Wrap

Parsers == Tasks \cup {Main}

\* Mutant of Freed: e_free gives nothing back.
FreedNothing(b) == allocated

\* e_free, which ignores a null pointer.
Freed(b) == allocated \ {b}

Init ==
  /\ slot = [i \in Cells |-> EmptySlot]
  /\ comIndex = 0
  /\ allocated = {}
  /\ now = 0
  /\ pc = [t \in Parsers |-> "idle"]
  /\ com = [t \in Parsers |-> None]
  /\ com1 = [t \in Parsers |-> None]
  /\ frame = [t \in Parsers |-> None]
  /\ scan = 0
  /\ bin = None /\ bin2 = None
  /\ due = [i \in Cells |-> 0]
  /\ posted = [i \in Cells |-> None]
  /\ overrun = FALSE

-----------------------------------------------------------------------------
(* obtainCommand: under the mutex.  A slot is handed out without being       *)
(* marked, so it stays free until its holder calls send.                     *)

NextIndex(k) == IF k + 1 >= MAX_COMMANDS THEN 0 ELSE k + 1

\* Mutant of Free: the search forgets to look at the flag.
FreeIsAll == Slots

Free == {i \in Slots : ~slot[i].valid}

\* The cursor's slot, if free.  What the flag of the memory beyond the array
\* reads as is anybody's guess.
ObtainedAtCursor(s, k) ==
  /\ comIndex = Beyond \/ ~slot[comIndex].valid
  /\ s = comIndex
  /\ k = NextIndex(comIndex)

\* Else the first free slot of the array, or nothing.
ObtainedByScan(s, k) ==
  /\ comIndex = Beyond \/ slot[comIndex].valid
  /\ \/ /\ s \in Free
        /\ \A i \in Free : s <= i
        /\ k = s + 1
     \/ /\ Free = {}
        /\ s = None
        /\ k = NextIndex(comIndex)

Obtained(s, k) == ObtainedAtCursor(s, k) \/ ObtainedByScan(s, k)

\* The main task parses at most one command per pass of its loop.
Rest(t) == IF t = Main THEN "ready" ELSE "idle"

Obtain(t) ==
  /\ pc[t] = "idle"
  /\ \E f \in Frames[t], s \in Cells \cup {None}, k \in Cells :
       /\ Obtained(s, k)
       /\ comIndex' = k
       /\ pc' = [pc EXCEPT ![t] = IF s = None THEN Rest(t) ELSE "fill"]
       /\ com' = [com EXCEPT ![t] = s]
       /\ frame' = [frame EXCEPT ![t] = IF s = None THEN None ELSE f]
       /\ overrun' = (overrun \/ s = Beyond)
  /\ UNCHANGED <<slot, allocated, now, com1, mainVars, due, posted>>

-----------------------------------------------------------------------------
(* BinaryCommand::parse and StringCommand::parse, on the slot they hold.     *)

\* The fixed fields.  A text command has no id: the slot keeps the one it has.
Filled(c, f) ==
  [c EXCEPT !.id = IF f.kind = "binary" THEN f.id ELSE c.id,
            !.action = f.action, !.target = f.target,
            !.delay = f.delay, !.interval = f.interval, !.size = f.size]

Fill(t) ==
  /\ pc[t] = "fill"
  /\ slot' = [slot EXCEPT ![com[t]] = Filled(slot[com[t]], frame[t])]
  /\ pc' = [pc EXCEPT ![t] = "payload"]
  /\ UNCHANGED <<comIndex, allocated, now, parserVars, mainVars, history>>

\* The error paths give the slot back with *com = {}; a text command frees the
\* buffer first, a binary one believes there is none.
Reject(t) ==
  /\ slot' = [slot EXCEPT ![com[t]] = EmptySlot]
  /\ allocated' = IF frame[t].kind = "string"
                  THEN Freed(slot[com[t]].data) ELSE allocated
  /\ pc' = [pc EXCEPT ![t] = Rest(t)]
  /\ com' = [com EXCEPT ![t] = None]
  /\ frame' = [frame EXCEPT ![t] = None]
  /\ posted' = [posted EXCEPT ![com[t]] = None]
  /\ due' = [due EXCEPT ![com[t]] = 0]
  /\ UNCHANGED <<comIndex, now, com1, mainVars, overrun>>

\* A payload shorter than announced, or a "for"/"times" without its number.
RejectShort(t) ==
  /\ pc[t] = "payload"
  /\ ~frame[t].whole
  /\ frame[t].kind = "string" \/ slot[com[t]].size > 0
  /\ Reject(t)

\* Mutant of RejectNoMemory: the failure of e_malloc is not handled.
RejectNoMemoryNever(t) == FALSE

RejectNoMemory(t) ==
  /\ pc[t] = "payload"
  /\ frame[t].kind = "binary" /\ frame[t].whole
  /\ slot[com[t]].size > 0
  /\ allocated = Blocks
  /\ Reject(t)

\* "on ... for n" is to be split in two commands.
OnFor(c) == c.delay > 0 /\ c.action = "ON"

\* The rest of a parse that succeeds: the size, the payload and the condition
\* it leaves in the slot, and the time the delay starts.
Armed(c, f, size, data) ==
  [c EXCEPT !.size = size,
            !.data = data,
            !.cond = c.cond \/ (f.cond /\ (f.kind = "string" \/ size > 0)),
            !.duration = IF c.delay > 0 THEN After(c.delay) ELSE c.duration]

Parsed(t, size, data) ==
  LET c == slot[com[t]] IN
  /\ slot' = [slot EXCEPT ![com[t]] = Armed(c, frame[t], size, data)]
  /\ due' = [due EXCEPT ![com[t]] = IF c.delay > 0 THEN now + c.delay ELSE now]
  /\ pc' = [pc EXCEPT ![t] =
             IF frame[t].kind = "string" /\ OnFor(c) THEN "split" ELSE "send"]
  /\ UNCHANGED <<comIndex, now, parserVars, mainVars, posted, overrun>>

ParsePlain(t) ==
  /\ pc[t] = "payload"
  /\ slot[com[t]].size = 0
  /\ frame[t].whole \/ frame[t].kind = "binary"
  /\ Parsed(t, 0, slot[com[t]].data)
  /\ UNCHANGED allocated

ParsePayload(t) ==
  /\ pc[t] = "payload"
  /\ frame[t].whole
  /\ slot[com[t]].size > 0
  /\ \E b \in Blocks \ allocated :
       /\ allocated' = allocated \cup {b}
       /\ Parsed(t, slot[com[t]].size, b)

\* A monitor text command goes on without its buffer when memory is out.
ParseNoMemory(t) ==
  /\ pc[t] = "payload"
  /\ frame[t].kind = "string" /\ frame[t].whole
  /\ slot[com[t]].size > 0
  /\ allocated = Blocks
  /\ Parsed(t, 0, slot[com[t]].data)
  /\ UNCHANGED allocated

\* "on for": the delay and the repetitions move to a second command, which
\* turns the device off, or toggles it.  The assignments are sequential, and
\* the second command may be the first one.
SecondHalf(d, c) ==
  [d EXCEPT !.target = c.target,
            !.action = IF c.interval = 0 THEN "OFF" ELSE "TOGGLE",
            !.delay = c.delay, !.interval = c.interval,
            !.duration = c.duration]

FirstHalf(c) == [c EXCEPT !.delay = 0, !.interval = 0, !.duration = 0]

HandOver(c, d) ==
  LET handed == [slot EXCEPT ![d] = SecondHalf(slot[d], slot[c])] IN
  /\ slot' = [handed EXCEPT ![c] = FirstHalf(handed[c])]
  /\ due' = [due EXCEPT ![d] = due[c], ![c] = now]

Split(t) ==
  /\ pc[t] = "split"
  /\ \E s \in Cells \cup {None}, k \in Cells :
       /\ Obtained(s, k)
       /\ comIndex' = k
       /\ com1' = [com1 EXCEPT ![t] = s]
       /\ overrun' = (overrun \/ s = Beyond)
       /\ IF s = None THEN UNCHANGED <<slot, due>> ELSE HandOver(com[t], s)
  /\ pc' = [pc EXCEPT ![t] = "send"]
  /\ UNCHANGED <<allocated, now, com, frame, mainVars, posted>>

-----------------------------------------------------------------------------
(* send: under the mutex.                                                    *)

\* Mutant of Complete: one of the two is enough.
CompleteEither(c) == c.target # "UNKNOWN" \/ c.action # "NO_OP"

Complete(c) == c.target # "UNKNOWN" /\ c.action # "NO_OP"

\* The pointer is dropped; the second command of a split is sent next.
Release(t) ==
  /\ com' = [com EXCEPT ![t] = com1[t]]
  /\ com1' = [com1 EXCEPT ![t] = None]
  /\ pc' = [pc EXCEPT ![t] = IF com1[t] = None THEN Rest(t) ELSE "send"]
  /\ frame' = [frame EXCEPT ![t] = IF com1[t] = None THEN None ELSE frame[t]]

Send(t) ==
  /\ pc[t] = "send"
  /\ Complete(slot[com[t]])
  /\ slot' = [slot EXCEPT ![com[t]].valid = TRUE]
  /\ posted' = [posted EXCEPT ![com[t]] = frame[t]]
  /\ Release(t)
  /\ UNCHANGED <<comIndex, allocated, now, mainVars, due, overrun>>

SendRefused(t) ==
  /\ pc[t] = "send"
  /\ ~Complete(slot[com[t]])
  /\ slot' = [slot EXCEPT ![com[t]] = EmptySlot]
  /\ allocated' = Freed(slot[com[t]].data)
  /\ posted' = [posted EXCEPT ![com[t]] = None]
  /\ due' = [due EXCEPT ![com[t]] = 0]
  /\ Release(t)
  /\ UNCHANGED <<comIndex, now, mainVars, overrun>>

-----------------------------------------------------------------------------
(* The main task: checkIncomingCommands and onReceive, without the mutex.    *)

StartScan ==
  /\ pc[Main] \in {"idle", "ready"}
  /\ pc' = [pc EXCEPT ![Main] = "scan"]
  /\ scan' = 0
  /\ UNCHANGED <<slot, comIndex, allocated, now, parserVars, bin, bin2, history>>

\* Mutants of Advance: the loop runs one index too far, or one too few.
AdvancePastEnd ==
  /\ pc' = [pc EXCEPT ![Main] =
             IF scan + 1 <= MAX_COMMANDS THEN "scan" ELSE "idle"]
  /\ scan' = IF scan + 1 <= MAX_COMMANDS THEN scan + 1 ELSE 0

AdvanceShort ==
  /\ pc' = [pc EXCEPT ![Main] =
             IF scan + 2 < MAX_COMMANDS THEN "scan" ELSE "idle"]
  /\ scan' = IF scan + 2 < MAX_COMMANDS THEN scan + 1 ELSE 0

\* The loop's next index, or the end of the pass.
Advance ==
  /\ pc' = [pc EXCEPT ![Main] =
             IF scan + 1 < MAX_COMMANDS THEN "scan" ELSE "idle"]
  /\ scan' = IF scan + 1 < MAX_COMMANDS THEN scan + 1 ELSE 0

\* recycleCommand clears the valid flag first, the rest in a second step; then
\* slot j is recycled the same way.
Invalidate(i) ==
  /\ slot' = [slot EXCEPT ![i].valid = FALSE]
  /\ posted' = [posted EXCEPT ![i] = None]
  /\ due' = [due EXCEPT ![i] = 0]

StartRecycle(i, j) ==
  /\ Invalidate(i)
  /\ pc' = [pc EXCEPT ![Main] = "recycle"]
  /\ bin' = i
  /\ bin2' = j
  /\ UNCHANGED scan

\* Mutants of Cleared: the freed pointer, or the id, stays in the slot.
ClearedButPointer(c) == [EmptySlot EXCEPT !.valid = c.valid, !.data = c.data]
ClearedButId(c)      == [EmptySlot EXCEPT !.valid = c.valid, !.id = c.id]

\* The second half of recycleCommand: whatever the slot now holds is cleared.
Cleared(c) == [EmptySlot EXCEPT !.valid = c.valid]

Recycle ==
  /\ pc[Main] = "recycle"
  /\ slot' = [slot EXCEPT ![bin] = Cleared(slot[bin])]
  /\ allocated' = Freed(slot[bin].data)
  /\ bin' = None
  /\ IF bin2 = None
     THEN Advance
     ELSE pc' = [pc EXCEPT ![Main] = "recycle2"] /\ UNCHANGED scan
  /\ UNCHANGED <<comIndex, now, parserVars, bin2, history>>

RecycleNext ==
  /\ pc[Main] = "recycle2"
  /\ StartRecycle(bin2, None)
  /\ UNCHANGED <<comIndex, allocated, now, parserVars, overrun>>

Instant(c) == c.duration = 0 /\ c.interval = 0
Reached(c) == c.duration > 0 /\ c.duration <= Millis

\* Nothing to do for this slot: free, or its time is not reached.
Pass ==
  /\ pc[Main] = "scan"
  /\ LET c == slot[scan] IN
       ~c.valid \/ (c.action # "CANCEL" /\ c.duration > 0 /\ ~Reached(c))
  /\ Advance
  /\ UNCHANGED <<slot, comIndex, allocated, now, parserVars, bin, bin2, history>>

\* cancelCommand recycles the first slot with the given id, sent or not.
Named(id) == {i \in Slots : slot[i].id = id}

Cancel ==
  /\ pc[Main] = "scan"
  /\ slot[scan].valid /\ slot[scan].action = "CANCEL"
  /\ \/ /\ slot[scan].id = 0
        /\ StartRecycle(scan, None)
     \/ \E i \in Named(slot[scan].id) :
          /\ slot[scan].id # 0
          /\ \A j \in Named(slot[scan].id) : i <= j
          /\ StartRecycle(i, scan)
  /\ UNCHANGED <<comIndex, allocated, now, parserVars, overrun>>

\* callExecute is entered for the slot at scan.
Execute ==
  /\ pc[Main] = "scan"
  /\ LET c == slot[scan] IN
       /\ c.valid /\ c.action # "CANCEL"
       /\ \/ Instant(c) /\ pc' = [pc EXCEPT ![Main] = "exec"]
          \/ Reached(c) /\ pc' = [pc EXCEPT ![Main] = "execDelayed"]
  /\ UNCHANGED <<slot, comIndex, allocated, now, parserVars, mainVars, history>>

\* An instant command is recycled; a delayed one with repetitions left is
\* armed again.
FinishInstant ==
  /\ StartRecycle(scan, None)
  /\ UNCHANGED <<comIndex, allocated, now, parserVars, overrun>>

\* Mutant of Rearmed: the delay is not added.
RearmedAtOnce(c) == [c EXCEPT !.duration = Millis, !.interval = c.interval - 1]

Rearmed(c) ==
  [c EXCEPT !.duration = After(c.delay), !.interval = c.interval - 1]

FinishDelayed ==
  \/ /\ slot[scan].interval = 0
     /\ FinishInstant
  \/ /\ slot[scan].interval > 0
     /\ slot' = [slot EXCEPT ![scan] = Rearmed(slot[scan])]
     /\ due' = [due EXCEPT ![scan] = now + slot[scan].delay]
     /\ Advance
     /\ UNCHANGED <<comIndex, allocated, now, parserVars, bin, bin2, posted,
                    overrun>>

Executed ==
  \/ pc[Main] = "exec" /\ FinishInstant
  \/ pc[Main] = "execDelayed" /\ FinishDelayed

\* A condition no executor finds met: the execution is skipped.
ConditionUnmet ==
  /\ pc[Main] = "scan"
  /\ LET c == slot[scan] IN
       /\ c.valid /\ c.action # "CANCEL" /\ c.cond
       /\ \/ Instant(c) /\ FinishInstant
          \/ Reached(c) /\ FinishDelayed

\* Repetitions without a delay: recycled without being executed.
Discard ==
  /\ pc[Main] = "scan"
  /\ LET c == slot[scan] IN
       c.valid /\ c.action # "CANCEL" /\ c.duration = 0 /\ c.interval > 0
  /\ FinishInstant

Tick ==
  /\ now < Horizon
  /\ now' = now + 1
  /\ UNCHANGED <<slot, comIndex, allocated, pc, parserVars, mainVars, history>>

-----------------------------------------------------------------------------
Parse(t) ==
  \/ Fill(t) \/ RejectShort(t) \/ RejectNoMemory(t)
  \/ ParsePlain(t) \/ ParsePayload(t) \/ ParseNoMemory(t)
  \/ Split(t) \/ Send(t) \/ SendRefused(t)

Serve ==
  \/ StartScan \/ Pass \/ Cancel \/ Execute \/ Executed
  \/ ConditionUnmet \/ Discard \/ Recycle \/ RecycleNext

Next ==
  \/ \E t \in Tasks : Obtain(t) \/ Parse(t)
  \/ Serve
  \/ Tick

Spec == Init /\ [][Next]_vars

\* No task is starved: a parse that began goes on, the main loop runs, time
\* passes.  Nobody has to send a command.
FairSpec ==
  /\ Spec
  /\ \A t \in Tasks : WF_vars(Parse(t))
  /\ WF_vars(Serve)
  /\ WF_vars(Tick)

-----------------------------------------------------------------------------
(* Properties.                                                               *)

PC == {"idle", "ready", "fill", "payload", "split", "send",
       "scan", "exec", "execDelayed", "recycle", "recycle2"}

\* Every variable has its type; a task that is parsing holds a cell of the
\* pool and the main task recycles slots of the array only.
TypeOK ==
  /\ slot \in [Cells -> Slot]
  /\ comIndex \in Cells
  /\ allocated \in SUBSET Blocks
  /\ now \in 0 .. Horizon
  /\ pc \in [Parsers -> PC]
  /\ com \in [Parsers -> Cells \cup {None}]
  /\ com1 \in [Parsers -> Cells \cup {None}]
  /\ frame \in [Parsers -> Frame \cup {None}]
  /\ scan \in Slots
  /\ bin \in Slots \cup {None} /\ bin2 \in Slots \cup {None}
  /\ due \in [Cells -> Nat]
  /\ posted \in [Cells -> Frame \cup {None}]
  /\ overrun \in BOOLEAN

\* A payload buffer belongs to one slot and is still allocated while the slot
\* points at it: recycleCommand, send and the parsers' error paths, which all
\* free, never free a buffer twice or under another slot's feet.
PayloadsOwned ==
  \A i \in Cells : slot[i].data # None =>
    /\ slot[i].data \in allocated
    /\ \A j \in Cells : slot[j].data = slot[i].data => j = i

\* No buffer is lost: what e_malloc handed out is in some slot, which will free
\* it (unless a command was written beyond the array).
NoLeak ==
  overrun \/ \A b \in allocated : \E i \in Cells : slot[i].data = b

\* A command the main task may pick up has a target and an action: send refuses
\* the others, and nothing strips an accepted one of them.
ValidComplete ==
  \A i \in Slots :
    slot[i].valid => slot[i].target # "UNKNOWN" /\ slot[i].action # "NO_OP"

Executing == pc[Main] \in {"exec", "execDelayed"}

\* What is executed is what one sender sent, not a mix of two commands or the
\* leftovers of an earlier one.
ExecutedAsSent ==
  Executing =>
    LET f == posted[scan]
        c == slot[scan]
    IN /\ f # None
       /\ c.id = (IF f.kind = "binary" THEN f.id ELSE 0)
       /\ c.target = f.target
       /\ \/ c.action = f.action
          \/ f.kind = "string" /\ OnFor(f) /\ c.action \in {"OFF", "TOGGLE"}
       /\ c.cond => f.cond

\* What the main task executes does not change under it: no parser is handed the
\* slot or still writes to it.
ExecutedIsStable ==
  [][Executing /\ Executing' => slot'[scan] = slot[scan]]_vars

\* A delayed command, and each of its repetitions, waits its full delay.
NotEarly == Executing => due[scan] <= now

\* A command that was sent stays until the main task is done with it or
\* executes a cancel command that gives its id: no parser takes its slot.
PendingKept ==
  [][\A i \in Slots : slot[i].valid /\ ~slot'[i].valid =>
       /\ pc[Main] \in {"scan", "exec", "execDelayed", "recycle2"}
       /\ \/ i = scan
          \/ /\ slot[scan].action = "CANCEL"
             /\ slot[scan].id = slot[i].id /\ slot[i].id # 0]_vars

\* No payload is lost, whatever a frame lacks or an allocation refuses, and a
\* command the scan may pick up is complete (Executor.cpp:78-89, 334-340).
CommandsWhole == NoLeak /\ ValidComplete

\* What is executed is what was sent, and not before its time
\* (Executor.cpp:136-142, 159-180).
ExecutedRight == ExecutedAsSent /\ NotEarly

\* While the main task executes a slot no parser writes to it, and what waits
\* stays until it is executed or cancelled (Executor.cpp:36-57, 159-180).
PickedStays == ExecutedIsStable /\ PendingKept

\* Whatever is due is dealt with: executed, dropped for its condition, or
\* armed for later.
DueServed ==
  \A i \in Slots :
    (slot[i].valid /\ slot[i].duration <= Millis) ~>
      ~(slot[i].valid /\ slot[i].duration <= Millis)

\* A parse that got a slot ends, with memory or without.
ParseEnds ==
  \A t \in Tasks : (pc[t] = "fill") ~> (com[t] = None)

-----------------------------------------------------------------------------
(* What the comments say and the code does not do.                           *)

\* Executor.cpp:32: obtainCommand "is called from multiple threads so we lock
\* it with a mutex for consistency": two tasks never fill the same slot.
SlotExclusive ==
  \A t, u \in Tasks : t # u /\ com[t] # None => com[t] # com[u]

\* Executor.cpp:44: the cursor is brought back to 0 at MAX_COMMANDS, so that
\* &commands[comIndex] is a command of the pool.
CursorInBounds == comIndex \in Slots

\* Executor.cpp:665: "on for" makes two commands, one to turn on immediately and
\* one to turn off after the delay.
SplitInTwo == \A t \in Tasks : com1[t] # None => com1[t] # com[t]

\* Executor.cpp:101: a delayed command can be cancelled by its id before its
\* time: the cancel command recycles one that has it, not itself.
CancelFindsIt ==
  [][Cancel /\ (\E i \in Slots : slot[i].valid /\ slot[i].action # "CANCEL"
                                /\ slot[i].id = slot[scan].id
                                /\ slot[scan].id # 0)
       => bin' # scan]_vars

\* Executor.h:91: the interval 100 means unlimited repetitions.
UnlimitedStays ==
  [][\A i \in Slots :
       slot[i].valid /\ slot'[i].valid /\ slot[i].interval = UNLIMITED
         => slot'[i].interval = UNLIMITED]_vars
=============================================================================
