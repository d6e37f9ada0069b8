----------------------------- MODULE PowerManager -----------------------------
(***************************************************************************)
(* The four power stages of the firmware (PowerManager.cpp), with what they *)
(* depend on: the main loop of main.cpp, which executes commands, samples  *)
(* the sensors (LiveData::monitor and writeGlobal) and then calls tick, and *)
(* the ignition, which the rider's key or our relay turns on.              *)
(*                                                                         *)
(* Time is in half seconds, and eccles_millis() is cyclic with period Wrap *)
(* and starts at 0 on every boot.                                          *)
(***************************************************************************)
EXTENDS Naturals

CONSTANTS
  IDLE_REDUCED_MS,     (* idle time to 80 MHz                               *)
  IDLE_LIGHT_SLEEP_MS, (* idle time to light sleep                          *)
  IDLE_DEEP_SLEEP_MS,  (* idle time to deep sleep                           *)
  RECONNECT_WINDOW_MS, (* time on after the deep sleep timer                *)
  Wrap,                (* the period of eccles_millis()                     *)
  MaxPause             (* bound: the longest pass of the main loop          *)

PowerAssumption ==
  /\ IDLE_REDUCED_MS \in Nat \ {0} /\ IDLE_LIGHT_SLEEP_MS \in Nat
  /\ IDLE_DEEP_SLEEP_MS \in Nat /\ RECONNECT_WINDOW_MS \in Nat
  /\ Wrap \in Nat /\ MaxPause \in Nat \ {0}
  /\ IDLE_REDUCED_MS < IDLE_LIGHT_SLEEP_MS
  /\ IDLE_LIGHT_SLEEP_MS < IDLE_DEEP_SLEEP_MS
  /\ RECONNECT_WINDOW_MS < IDLE_DEEP_SLEEP_MS
  /\ IDLE_DEEP_SLEEP_MS + MaxPause < Wrap

VARIABLES
  phase,     \* where the main loop is: "execute", "monitor", "tick", "wake" in
             \* tick after the light sleep, or "asleep" in deep sleep
  stage,     \* PowerManager::stage
  idleStart, \* PowerManager::idleStart; 0 is no idle period
  time,      \* eccles_millis()
  wifi, bt,  \* the station has an address; a Bluetooth peer is connected
  key,       \* the rider's key is on
  relay,     \* our relay is on: the ignition device's desiredState
  running,   \* the engine runs
  globalState, \* IGNITION_STATE and ENGINE_RUNNING, as last sampled
  ignitionExternalFlag,
  ldm_d,     \* LiveData::ldm_d; 0 before the first pass
  unseen,    \* history: time since a tick saw activity, or since the boot
  budget,    \* history: how long that has to be for the next deep sleep
  ridden     \* history: how long the bike has been on without our doing

powerVars  == <<stage, idleStart>>
bikeVars   == <<key, relay, running>>
sampleVars == <<globalState, ignitionExternalFlag, ldm_d>>
history    == <<unseen, budget, ridden>>
vars == <<phase, powerVars, time, wifi, bt, bikeVars, sampleVars, history>>

Stages == {"FULL", "REDUCED", "LIGHT_SLEEP"}

Nothing == [ignition |-> FALSE, engine |-> FALSE]

Init ==
  /\ phase = "execute" /\ stage = "FULL" /\ idleStart = 0 /\ time = 0
  /\ wifi = FALSE /\ bt = FALSE
  /\ key = FALSE /\ relay = FALSE /\ running = FALSE
  /\ globalState = Nothing /\ ignitionExternalFlag = FALSE /\ ldm_d = 0
  /\ unseen = 0 /\ budget = IDLE_DEEP_SLEEP_MS /\ ridden = 0

-----------------------------------------------------------------------------
(* The world.                                                                *)

Ignition == key \/ relay

\* The bike is on and it is not our doing.
Ridden == running \/ (key /\ ~relay)

Cap(n, max) == IF n > max THEN max ELSE n

\* Time passes; the histories stop counting where it makes no difference.
Pass(d) ==
  /\ time' = (time + d) % Wrap
  /\ unseen' = Cap(unseen + d, IDLE_DEEP_SLEEP_MS)
  /\ ridden' = IF Ridden THEN Cap(ridden + d, MaxPause + 2) ELSE 0

Connection ==
  /\ phase # "asleep"
  /\ \/ wifi' = ~wifi /\ UNCHANGED bt
     \/ bt' = ~bt /\ UNCHANGED wifi
  /\ UNCHANGED <<phase, powerVars, time, bikeVars, sampleVars, history>>

Rider ==
  /\ \/ key' = ~key /\ running' = (running /\ (key' \/ relay))
     \/ Ignition /\ running' = ~running /\ UNCHANGED key
  /\ UNCHANGED <<phase, powerVars, time, wifi, bt, relay, sampleVars, unseen,
                 budget>>
  /\ ridden' = IF Ridden' THEN ridden ELSE 0

-----------------------------------------------------------------------------
(* The passes of the main loop before tick.                                  *)

\* PowerManager::setIgnitionDesired.
setIgnitionDesired(weCommandedIt) ==
  ignitionExternalFlag' = (~weCommandedIt /\ globalState'.ignition)

\* DigitalIODevice::on and off for the ignition.
Command ==
  /\ phase = "execute"
  /\ relay' \in BOOLEAN
  /\ running' = (running /\ (key \/ relay'))
  /\ UNCHANGED <<phase, powerVars, time, wifi, bt, key, globalState, ldm_d, unseen,
                 budget>>
  /\ setIgnitionDesired(relay')
  /\ ridden' = IF Ridden' THEN ridden ELSE 0

Executed ==
  /\ phase = "execute"
  /\ phase' = "monitor"
  /\ UNCHANGED <<powerVars, time, wifi, bt, bikeVars, sampleVars, history>>

\* LiveData::writeGlobal, as far as the ignition goes.
writeGlobal ==
  /\ globalState' = [ignition |-> Ignition, engine |-> running]
  /\ setIgnitionDesired(~(Ignition /\ ~relay))

\* LiveData::monitor: half a second after the boot it starts to sample.
monitor ==
  /\ phase = "monitor"
  /\ phase' = "tick"
  /\ \/ /\ ldm_d = 0
        /\ ldm_d' = (time + 1) % Wrap
        /\ UNCHANGED <<globalState, ignitionExternalFlag>>
     \/ /\ ldm_d > time
        /\ UNCHANGED sampleVars
     \/ /\ ldm_d > 0 /\ ldm_d <= time
        /\ writeGlobal
        /\ UNCHANGED ldm_d
  /\ UNCHANGED <<powerVars, time, wifi, bt, bikeVars, history>>

-----------------------------------------------------------------------------
(* PowerManager::tick.                                                       *)

\* Mutant of anyConnected: an engine that runs is not looked at.
anyConnectedRadio == wifi \/ bt

anyConnected ==
  \/ wifi \/ bt
  \/ globalState.engine
  \/ (globalState.ignition /\ ignitionExternalFlag)

\* Mutant of Idle: the difference does not survive the wrap of the clock.
IdleSigned(start) == IF time < start THEN 0 ELSE time - start

Idle(start) == (time + Wrap - start) % Wrap

\* Mutant of Active: the idle time is reset, the power is not restored.
ActiveSlow == idleStart' = 0 /\ UNCHANGED stage

Active ==
  /\ idleStart' = 0
  /\ stage' = "FULL"

Seen == unseen' = 0 /\ budget' = IDLE_DEEP_SLEEP_MS

\* Something is connected: full power, and the idle time starts again.
TickConnected ==
  /\ phase = "tick" /\ anyConnected
  /\ Active
  /\ phase' = "execute"
  /\ \E d \in 1 .. MaxPause :
       /\ time' = (time + d) % Wrap
       /\ ridden' = IF Ridden THEN Cap(ridden + d, MaxPause + 2) ELSE 0
  /\ Seen
  /\ UNCHANGED <<wifi, bt, bikeVars, sampleVars>>

\* The first tick without a connection starts the idle period.
Start == IF idleStart = 0 THEN time ELSE idleStart

IdleStage(idle) ==
  IF idle < IDLE_REDUCED_MS THEN "FULL"
  ELSE IF idle < IDLE_LIGHT_SLEEP_MS THEN "REDUCED" ELSE "LIGHT_SLEEP"

\* A short yield at full or reduced power; half a second of light sleep.
TickIdle ==
  /\ phase = "tick" /\ ~anyConnected
  /\ Idle(Start) < IDLE_DEEP_SLEEP_MS
  /\ idleStart' = Start
  /\ stage' = IdleStage(Idle(Start))
  /\ IF stage' = "LIGHT_SLEEP"
     THEN phase' = "wake" /\ Pass(1)
     ELSE phase' = "execute" /\ \E d \in 1 .. MaxPause : Pass(d)
  /\ UNCHANGED <<wifi, bt, bikeVars, sampleVars, budget>>

\* Mutant of Wake: what connected during the sleep does not end the idle time.
WakeBlind ==
  /\ phase = "wake"
  /\ phase' = "execute"
  /\ IF anyConnected THEN stage' = "FULL" /\ UNCHANGED idleStart /\ Seen
     ELSE UNCHANGED <<powerVars, unseen, budget>>
  /\ UNCHANGED <<time, wifi, bt, bikeVars, sampleVars, ridden>>

\* After the light sleep: back to full power if something has connected.
Wake ==
  /\ phase = "wake"
  /\ phase' = "execute"
  /\ IF anyConnected THEN Active /\ Seen
     ELSE UNCHANGED <<powerVars, unseen, budget>>
  /\ UNCHANGED <<time, wifi, bt, bikeVars, sampleVars, ridden>>

\* enterDeepSleep does not return: the radio, the memory and our relay are off.
DeepSleep ==
  /\ phase = "tick" /\ ~anyConnected
  /\ Idle(Start) >= IDLE_DEEP_SLEEP_MS
  /\ phase' = "asleep"
  /\ wifi' = FALSE /\ bt' = FALSE
  /\ relay' = FALSE /\ running' = (running /\ key)
  /\ UNCHANGED <<powerVars, time, key, sampleVars, history>>

\* init after the deep sleep timer: the idle period began in the past.
PastStart == (Wrap - (IDLE_DEEP_SLEEP_MS - RECONNECT_WINDOW_MS)) % Wrap

\* The timer fires and app_main runs again, from nothing.
Boot ==
  /\ phase = "asleep"
  /\ phase' = "execute"
  /\ time' = 0 /\ stage' = "FULL" /\ idleStart' = PastStart
  /\ globalState' = Nothing /\ ignitionExternalFlag' = FALSE /\ ldm_d' = 0
  /\ unseen' = 0 /\ budget' = RECONNECT_WINDOW_MS
  /\ ridden' = IF Ridden THEN 1 ELSE 0
  /\ UNCHANGED <<wifi, bt, bikeVars>>

tick == TickConnected \/ TickIdle \/ Wake \/ DeepSleep

MainLoop == Executed \/ monitor \/ tick \/ Boot

Next == Connection \/ Rider \/ Command \/ MainLoop

Spec == Init /\ [][Next]_vars

\* The main loop never stops, and the timer ends every deep sleep.
FairSpec == Spec /\ WF_vars(MainLoop)

-----------------------------------------------------------------------------
(* Properties.                                                               *)

TypeOK ==
  /\ phase \in {"execute", "monitor", "tick", "wake", "asleep"}
  /\ stage \in Stages
  /\ idleStart \in 0 .. Wrap - 1 /\ time \in 0 .. Wrap - 1 /\ ldm_d \in 0 .. Wrap - 1
  /\ {wifi, bt, key, relay, running, ignitionExternalFlag} \subseteq BOOLEAN
  /\ globalState \in [ignition : BOOLEAN, engine : BOOLEAN]
  /\ unseen \in 0 .. IDLE_DEEP_SLEEP_MS
  /\ budget \in {IDLE_DEEP_SLEEP_MS, RECONNECT_WINDOW_MS}
  /\ ridden \in 0 .. MaxPause + 2

\* Deep sleep, which drops every connection and every pending command, comes
\* only after the whole idle time without a tick that saw a connection, or after
\* the reconnect window: also across the wrap of the clock, and when 0 is both
\* the time and the mark for "not idle".
DeepSleepEarned == [][phase' = "asleep" /\ phase # "asleep" => unseen >= budget]_vars

\* A bike that somebody rides, on the key or with the engine running, never
\* goes into deep sleep, although the sensors are only sampled now and then and
\* a command may have just changed what we wanted the ignition to be.
NoSleepOnRide ==
  [][phase' = "asleep" /\ phase # "asleep" => ridden <= MaxPause]_vars

Level(s) == IF s = "FULL" THEN 2 ELSE IF s = "REDUCED" THEN 1 ELSE 0

\* PowerManager.h:13: the stages only go down while idle; they go up because a
\* tick has seen a connection, or with a boot.
DownwardOnIdle ==
  [][Level(stage') > Level(stage) => unseen' = 0]_vars

Connected == wifi \/ bt

\* PowerManager.h:13: a connection that stays restores full power, whatever the
\* stage it finds.
FullWhenConnected == Connected ~> (~Connected \/ stage = "FULL")

\* The battery is saved: alone for good, the bike sleeps, wakes and sleeps again.
SleepsWhenAlone ==
  <>[](~Connected /\ ~key /\ ~relay) => []<>(phase = "asleep")

-----------------------------------------------------------------------------
(* What the comments say and the code does not do.                           *)

\* PowerManager.cpp:29: the device is "awake" for the whole reconnect window
\* after the deep sleep timer.
AwakeInWindow ==
  budget = RECONNECT_WINDOW_MS /\ unseen < RECONNECT_WINDOW_MS
    => stage # "LIGHT_SLEEP"
=============================================================================
