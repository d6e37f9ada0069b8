------------------------------- MODULE MCPower -------------------------------
(***************************************************************************)
(* Two views of what LiveData and PowerManager do on the passes of the     *)
(* main loop, one of them in a behaviour: the stages of the power, and the *)
(* monitors of devices and sensors.                                        *)
(***************************************************************************)
EXTENDS PowerManager

CONSTANTS Parts,
          MAX_MONITORS, Devices, Sensors, Levels, Requests, Ids, MonitorWrap, None

VARIABLES part,
          monitors, state, level, begins, clock, due, passed, spent, age, fresh, stopped

(* The requests of the runs. *)
Ask(id, target, type, value) == [id |-> id, target |-> target, type |-> type, value |-> value]
AllRequests ==
  UNION {{Ask(1, d, "ON", 0), Ask(2, d, "OFF", 0)} : d \in Devices}
  \cup UNION {{Ask(2, s, "VALUE", 1), Ask(1, s, "VALUE_G", 1), Ask(3, s, "VALUE_L", 1)} : s \in Sensors}
ChangeRequests == {Ask(1, d, "CHANGE_M", 0) : d \in Devices}
ZeroRequests == UNION {{Ask(0, d, "ON", 0), Ask(1, d, "OFF", 0)} : d \in Devices}

monitorVars == <<monitors, state, level, begins, clock, due, passed, spent, age, fresh, stopped>>

M == INSTANCE Monitors WITH Wrap <- MonitorWrap, time <- clock, ldm_d <- begins

ASSUME PartsAssumption == PowerAssumption /\ M!MonitorAssumption

InitOne ==
  /\ part \in Parts /\ Init /\ M!Init
  /\ part = "power" => (\A d \in Devices : state[d] = "OFF") /\ \A s \in Sensors : level[s] = 0

Powered == part = "power" /\ Next /\ UNCHANGED <<part, monitorVars>>
Watched == part = "monitors" /\ M!Next /\ UNCHANGED <<part, vars>>

all     == <<part, vars, monitorVars>>
SpecOne == InitOne /\ [][Powered \/ Watched]_all

(* The fairness of the two: the main loop never stops.                     *)
FairOne ==
  /\ SpecOne
  /\ WF_all(Powered /\ MainLoop)
  /\ WF_all(Watched /\ M!PassOver) /\ WF_all(Watched /\ M!monitor)

(* A connection that stays restores full power, and alone for good the     *)
(* bike goes to deep sleep again and again (PowerManager.cpp:130-250); a   *)
(* condition met for good has acted (DeviceManager.cpp:476-520).           *)
PowerFollows ==
  /\ FullWhenConnected
  /\ <>[](part = "power" /\ ~Connected /\ ~key /\ ~relay) => []<>(phase = "asleep")
  /\ M!MetIsHandled

(* A condition acts once while it stays met, and is ready to act again     *)
(* once a check has seen it unmet (DeviceManager.cpp:476-560).             *)
MonitorsAct == []M!ReadyAgain /\ M!OncePerOnset

(* What the comments say and the code does not do: see Monitors.           *)
StopStops == M!StopStops
EveryHalfSecond == M!EveryHalfSecond
ActsAtOnce == M!ActsAtOnce
ChangeActs == M!ChangeActs
=============================================================================
