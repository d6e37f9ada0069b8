------------------------------- MODULE Monitors -------------------------------
(***************************************************************************)
(* The monitors of LiveData (DeviceManager.cpp): commands that are sent by *)
(* the firmware itself when a device or a sensor meets a condition.  A     *)
(* MNT command starts one, a MNTC command stops it, and the main loop      *)
(* checks them all on a pass, after it has executed commands.              *)
(*                                                                         *)
(* Everything here runs in the main task, a call is a step.  Time is in    *)
(* quarter seconds; eccles_millis() is cyclic with period Wrap.            *)
(***************************************************************************)
EXTENDS Naturals

CONSTANTS
  MAX_MONITORS, (* the size of the table (4)                                *)
  Devices,      (* devices that are on or off                               *)
  Sensors,      (* devices that have a level                                *)
  Levels,       (* what normalize makes of a reading                        *)
  Requests,     (* the monitors clients ask for                             *)
  Ids,          (* the ids they are stopped by                              *)
  Wrap,         (* the period of eccles_millis()                            *)
  None          (* no target                                                *)

Switches == {"ON", "OFF"}
Values   == {"VALUE", "VALUE_G", "VALUE_L"}
Types    == Switches \cup Values \cup {"CHANGE_M"}

Request == [id : Nat, target : Devices \cup Sensors, type : Types, value : Nat]

MonitorAssumption ==
  /\ MAX_MONITORS \in Nat \ {0}
  /\ Devices \cap Sensors = {} /\ None \notin Devices \cup Sensors
  /\ Levels \subseteq Nat /\ Ids \subseteq Nat
  /\ Requests \subseteq Request
  /\ \A m \in Requests : m.target \in Sensors <=> m.type \in Values
  /\ Wrap \in Nat /\ Wrap > 2

Rows == 1 .. MAX_MONITORS

VARIABLES
  monitors, \* the table
  state,    \* state[d]: what getState finds
  level,    \* level[s]: the normalized reading
  ldm_d,    \* 0, or when the checks begin
  time,     \* eccles_millis()
  due,      \* the main loop is about to check the monitors
  passed,   \* the rows for which onPassed was called in the last check
  spent,    \* history: rows that fired and were not seen unmet since
  age,      \* history: time since the last check, at most 2
  fresh,    \* history: rows that no check has seen yet
  stopped   \* history: rows in use with the id of the last stop

vars == <<monitors, state, level, ldm_d, time, due, passed, spent, age, fresh,
          stopped>>

EmptyRow == [valid |-> FALSE, id |-> 0, target |-> None, type |-> "UNKNOWN",
             value |-> 0, prevState |-> "UNKNOWN"]

Init ==
  /\ monitors = [r \in Rows |-> EmptyRow]
  /\ state \in [Devices -> {"ON", "OFF"}]
  /\ level \in [Sensors -> Levels]
  /\ ldm_d = 0 /\ time = 0 /\ due = FALSE
  /\ passed = {} /\ spent = {} /\ age = 2 /\ fresh = {} /\ stopped = {}

-----------------------------------------------------------------------------
(* The world.                                                                *)

Change ==
  /\ \/ \E d \in Devices, s \in {"ON", "OFF"} :
          state' = [state EXCEPT ![d] = s] /\ UNCHANGED level
     \/ \E s \in Sensors, v \in Levels :
          level' = [level EXCEPT ![s] = v] /\ UNCHANGED state
  /\ UNCHANGED <<monitors, ldm_d, time, due, passed, spent, age, fresh, stopped>>

-----------------------------------------------------------------------------
(* DeviceExecutor::execute, for monitor commands.                            *)

Unused == {r \in Rows : ~monitors[r].valid}

\* Mutant of Row: the state is read when the monitor starts.
RowSeen(r, m) ==
  [valid |-> TRUE, id |-> m.id, target |-> m.target, type |-> m.type, value |-> m.value,
   prevState |-> IF m.target \in Devices THEN state[m.target] ELSE "UNKNOWN"]

Row(r, m) ==
  [valid |-> TRUE, id |-> m.id, target |-> m.target, type |-> m.type,
   value |-> m.value, prevState |-> "UNKNOWN"]

\* The first unused row; a full table ignores the monitor.
startMonitor(m) ==
  /\ ~due
  /\ \E r \in Unused :
       /\ \A q \in Unused : r <= q
       /\ monitors' = [monitors EXCEPT ![r] = Row(r, m)]
       /\ fresh' = fresh \cup {r}
       /\ spent' = spent \ {r} /\ passed' = passed \ {r}
  /\ stopped' = {}
  /\ UNCHANGED <<state, level, ldm_d, time, due, age>>

Named(id) == {r \in Rows : monitors[r].id = id}

\* Mutant of Emptied: only the target is reset.
EmptiedTarget(r) == [monitors[r] EXCEPT !.target = None]

Emptied(r) == EmptyRow

\* The first row with the id, used or not.
stopMonitor(id) ==
  /\ ~due
  /\ \E r \in Named(id) :
       /\ \A q \in Named(id) : r <= q
       /\ monitors' = [monitors EXCEPT ![r] = Emptied(r)]
       /\ spent' = spent \ {r} /\ passed' = passed \ {r} /\ fresh' = fresh \ {r}
  /\ stopped' = {r \in Named(id) : monitors[r].valid}
  /\ UNCHANGED <<state, level, ldm_d, time, due, age>>

\* The other commands of a pass, and the time it takes.
PassOver ==
  /\ ~due
  /\ due' = TRUE
  /\ \E d \in {1, 2} :
       /\ time' = (time + d) % Wrap
       /\ age' = IF age + d > 2 THEN 2 ELSE age + d
  /\ UNCHANGED <<monitors, state, level, ldm_d, passed, spent, fresh, stopped>>

-----------------------------------------------------------------------------
(* LiveData::monitor.                                                        *)

\* The condition of a monitor, as its branch of the loop evaluates it.
Met(m) ==
  \/ m.type \in Switches /\ state[m.target] = m.type
  \/ m.type = "VALUE"   /\ level[m.target] = m.value
  \/ m.type = "VALUE_G" /\ level[m.target] > m.value
  \/ m.type = "VALUE_L" /\ level[m.target] < m.value

\* Mutant of Onset: the previous state is not compared.
OnsetAny(m) == Met(m)

\* A switch fires when it is met and has changed since the last check; a sensor
\* when the last check found it unmet.
Onset(m) ==
  /\ Met(m)
  /\ \/ m.type \in Switches /\ m.prevState # state[m.target]
     \/ m.type \in Values /\ m.prevState = "OFF"

\* Mutant of After: a condition that is met is recorded as one that fired.
AfterMet(m) ==
  IF m.type \in Switches THEN state[m.target]
  ELSE IF Met(m) THEN "ON" ELSE "OFF"

\* prevState after the check.  A condition that is met and does not fire keeps it.
After(m) ==
  IF m.type \in Switches THEN state[m.target]
  ELSE IF m.type \notin Values THEN m.prevState
  ELSE IF Onset(m) THEN "ON"
  ELSE IF Met(m) THEN m.prevState ELSE "OFF"

Valid == {r \in Rows : monitors[r].valid}

\* All monitors are checked, in order, within one call.
check ==
  /\ monitors' = [r \in Rows |->
       IF r \in Valid THEN [monitors[r] EXCEPT !.prevState = After(monitors[r])]
       ELSE monitors[r]]
  /\ passed' = {r \in Valid : Onset(monitors[r])}
  /\ spent' = (spent \cup {r \in Valid : Onset(monitors[r])})
                \ {r \in Valid : ~Met(monitors[r])}
  /\ age' = 0 /\ fresh' = {}
  /\ UNCHANGED ldm_d

\* The first call only says when the checks begin; it is never said again.
monitor ==
  /\ due
  /\ due' = FALSE
  /\ \/ /\ ldm_d = 0
        /\ ldm_d' = (time + 2) % Wrap
        /\ passed' = {}
        /\ UNCHANGED <<monitors, spent, age, fresh>>
     \/ /\ ldm_d > time
        /\ passed' = {}
        /\ UNCHANGED <<monitors, spent, age, fresh, ldm_d>>
     \/ ldm_d > 0 /\ ldm_d <= time /\ check
  /\ stopped' = {}
  /\ UNCHANGED <<state, level, time>>

Next ==
  \/ Change
  \/ \E m \in Requests : startMonitor(m)
  \/ \E id \in Ids : stopMonitor(id)
  \/ PassOver \/ monitor

Spec == Init /\ [][Next]_vars

\* The main loop never stops: passes go on, each with its check.
FairSpec == Spec /\ WF_vars(PassOver) /\ WF_vars(monitor)

-----------------------------------------------------------------------------
(* Properties.                                                               *)

RowType == [valid : BOOLEAN, id : Nat, target : Devices \cup Sensors \cup {None},
            type : Types \cup {"UNKNOWN"}, value : Nat,
            prevState : {"ON", "OFF", "UNKNOWN"}]

TypeOK ==
  /\ monitors \in [Rows -> RowType]
  /\ \A r \in Valid : monitors[r].target # None
  /\ state \in [Devices -> {"ON", "OFF"}]
  /\ level \in [Sensors -> Levels]
  /\ ldm_d \in 0 .. Wrap - 1 /\ time \in 0 .. Wrap - 1 /\ due \in BOOLEAN
  /\ passed \in SUBSET Rows /\ spent \in SUBSET Rows /\ fresh \in SUBSET Rows
  /\ stopped \in SUBSET Rows /\ age \in 0 .. 2

\* DeviceManager.cpp:502: a condition that stays met does not call the handler
\* again and again: between two calls a check has seen it unmet.
OncePerOnset == [][due /\ ~due' => passed' \cap spent = {}]_vars

\* A switch monitor whose condition is met for good has had its command sent,
\* also when it was already met before the monitor started.
MetIsHandled ==
  \A r \in Rows :
    (r \in Valid /\ monitors[r].type \in Switches) ~>
      (r \notin Valid \/ r \in spent \/ ~Met(monitors[r]))

\* A sensor condition that ends and comes back calls the handler again: once a
\* check has seen it unmet, the row is ready.
ReadyAgain ==
  \A r \in Valid :
    monitors[r].type \in Values /\ monitors[r].prevState = "ON" => r \in spent

-----------------------------------------------------------------------------
(* What the comments say and the code does not do.                           *)

\* DeviceManager.cpp:480: "we only check every 500ms".
EveryHalfSecond == [][age' = 0 /\ age # 0 => age >= 2]_vars

\* DeviceManager.cpp:442: the system is to act "whenever the device met a
\* condition we set": a check that finds a new monitor's condition met acts.
ActsAtOnce ==
  [][\A r \in Valid :
       r \in fresh /\ r \notin fresh' /\ monitors'[r].valid /\ Met(monitors[r])
         => r \in passed']_vars

\* DeviceManager.cpp:499: a check that finds the device of a CHANGE_M monitor in
\* another state than prevState calls the handler.
ChangeActs ==
  [][\A r \in Valid :
       /\ monitors[r].type = "CHANGE_M"
       /\ monitors[r].prevState # state[monitors[r].target]
       /\ age' = 0 /\ age # 0
         => r \in passed']_vars

\* DeviceManager.cpp:460: stopMonitor stops "the given monitor": of the rows
\* with the id of the last stop one is gone.
StopStops == stopped # {} => \E r \in stopped : ~monitors[r].valid
=============================================================================
