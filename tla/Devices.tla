-------------------------------- MODULE Devices --------------------------------
(***************************************************************************)
(* The switched devices of the bike (Devices.cpp, DeviceManager.cpp) under *)
(* the commands DeviceExecutor.cpp executes, at once, after a delay or     *)
(* repeatedly (Executor::onReceive).  How commands get into the pool is    *)
(* modelled in CommandPool; here a slot of the pool only matters while a   *)
(* delayed command waits in it.                                            *)
(*                                                                         *)
(* All of this runs in the main task: a command is a step.  ON is TRUE.    *)
(***************************************************************************)
EXTENDS Naturals

CONSTANTS
  IODevices,   (* DIGITAL_IO: headlamp, horn, signals, starter              *)
  IGNITION,    (* DIGITAL_OUTPUT_ANALOG_INPUT: a relay and a voltage        *)
  ENGINE,      (* DIGITAL_OUTPUT: the engine lock, no feedback              *)
  IGNITION_FB, (* the sensor of the ignition's voltage                      *)
  Readings,    (* what the voltage can read                                 *)
  IGNITION_THRSH, (* the highest reading that counts as off                 *)
  Slots,       (* the slots of the pool, in order                           *)
  Commands,    (* the commands that clients and monitors send               *)
  None         (* no command, no answer                                     *)

Devices == IODevices \cup {IGNITION, ENGINE}

\* DeviceManager::checkID and LiveData::checkID.
Managed == Devices \cup {IGNITION_FB}

\* A command without a condition, and conditions on a device or the sensor.
Always == [action |-> "NO_OP", target |-> None, value |-> 0]
Condition ==
  [action : {"NO_OP", "QUERY_ON", "QUERY_OFF", "QUERY_DATA", "QUERY_DATA_G",
             "QUERY_DATA_L"},
   target : Managed \cup {None}, value : Nat]

Actions == {"NO_OP", "ON", "OFF", "TOGGLE", "ENABLE", "DISABLE", "SILENCE", "VOICE",
            "QUERY_ON", "QUERY_OFF", "QUERY_STATE", "GET_DATA", "QUERY_DATA",
            "VOICE_DATA"}

\* "text" came over the serial line; "delay" is how long does not matter.
Command == [action : Actions, target : Managed \cup {"ALL"}, text : BOOLEAN,
            delay : BOOLEAN, interval : Nat, condition : Condition]

ASSUME DevicesAssumption ==
  /\ IGNITION \notin IODevices /\ ENGINE \notin IODevices /\ IGNITION # ENGINE
  /\ IGNITION_FB \notin Devices /\ None \notin Managed \cup Command \cup Nat
  /\ "ALL" \notin Managed
  /\ Readings \subseteq Nat /\ 0 \in Readings /\ IGNITION_THRSH \in Nat
  /\ Slots \subseteq Nat
  /\ Commands \subseteq Command

VARIABLES
  desired,  \* DigitalIODevice::desiredState
  output,   \* the level of the control pin
  enabled,  \* Device::enabled
  audible,  \* DigitalIODevice::audible
  wire,     \* the feedback pin of an IODevice, as a state
  reading,  \* the voltage at the pin shared by IGNITION and IGNITION_FB
  value,    \* DigitalOutputAnalogFeedbackDevice::value of the ignition
  sensed,   \* globalState.IGNITION_STATE
  ignitionExternalFlag, \* of the power manager
  pending,  \* pending[s]: the delayed command in slot s
  said,     \* what this step says aloud
  reply     \* the size in the answer of this step

switchVars == <<desired, output, ignitionExternalFlag>>
worldVars  == <<wire, reading>>
vars == <<switchVars, enabled, audible, worldVars, value, sensed, pending, said,
          reply>>

Quiet == said' = {} /\ reply' = None

All(b) == [d \in Devices |-> b]
Empty  == [s \in Slots |-> None]

\* The constructors and turnOffAll; initializeAll leaves every control pin low.
Init ==
  /\ desired = All(FALSE) /\ output = All(FALSE)
  /\ enabled = All(TRUE) /\ audible = All(TRUE)
  /\ wire \in [IODevices -> BOOLEAN] /\ reading \in Readings
  /\ value = 0 /\ sensed = FALSE /\ ignitionExternalFlag = FALSE
  /\ pending = Empty
  /\ said = {} /\ reply = None

-----------------------------------------------------------------------------
(* Devices.cpp.                                                              *)

\* update and getState of each class of device, after a command has been noted.
ActualState(d) ==
  CASE d \in IODevices  -> wire[d]
    [] d = IGNITION     -> value' > 0
    [] d = ENGINE       -> desired'[d]
    [] d = IGNITION_FB  -> TRUE

\* PowerManager::setIgnitionDesired.
setIgnitionDesired(d, weCommandedIt) ==
  ignitionExternalFlag' =
    IF d = IGNITION THEN ~weCommandedIt /\ sensed ELSE ignitionExternalFlag

\* Mutant of off: the power manager is not told.
offUnnoted(d) ==
  /\ desired' = [desired EXCEPT ![d] = FALSE]
  /\ output' = [output EXCEPT ![d] = FALSE]
  /\ UNCHANGED ignitionExternalFlag
  /\ said' = {}

\* Mutant of off: a disabled device is left alone.
offEnabled(d) ==
  IF enabled[d]
  THEN /\ desired' = [desired EXCEPT ![d] = FALSE]
       /\ output' = [output EXCEPT ![d] = FALSE]
       /\ setIgnitionDesired(d, FALSE)
       /\ said' = {}
  ELSE UNCHANGED switchVars /\ said' = {}

off(d) ==
  /\ desired' = [desired EXCEPT ![d] = FALSE]
  /\ output' = [output EXCEPT ![d] = FALSE]
  /\ setIgnitionDesired(d, FALSE)
  /\ said' = IF ~audible[d] THEN {}
             ELSE {"ok", IF ActualState(d) THEN "failed" ELSE "turned off"}

Nothing == UNCHANGED switchVars /\ said' = {}

\* Mutant of on: a disabled device obeys.
onDisabled(d) ==
  /\ desired' = [desired EXCEPT ![d] = TRUE]
  /\ output' = [output EXCEPT ![d] = TRUE]
  /\ setIgnitionDesired(d, TRUE)
  /\ said' = {}

on(d) ==
  IF enabled[d]
  THEN /\ desired' = [desired EXCEPT ![d] = TRUE]
       /\ output' = [output EXCEPT ![d] = TRUE]
       /\ setIgnitionDesired(d, TRUE)
       /\ said' = IF ~audible[d] THEN {}
                  ELSE {"ok", IF ActualState(d) THEN "turned on" ELSE "failed"}
  ELSE Nothing

-----------------------------------------------------------------------------
(* DeviceManager.cpp.  A sensor ignores on and off.                          *)

turnOnDevice(d)  == IF d \in Devices THEN on(d) ELSE Nothing
turnOffDevice(d) == IF d \in Devices THEN off(d) ELSE Nothing

\* The ignition is of a type that cannot be toggled.
toggleDevice(d) ==
  IF d \notin Devices \ {IGNITION} THEN Nothing
  ELSE IF desired[d] THEN turnOffDevice(d) ELSE turnOnDevice(d)

enableDevice(d) ==
  /\ enabled' = [x \in Devices |-> enabled[x] \/ x = d]
  /\ said' = IF d \in Devices THEN {"enabled"} ELSE {}

disableDevice(d) ==
  /\ enabled' = [x \in Devices |-> enabled[x] /\ x # d]
  /\ said' = IF d \in Devices THEN {"disabled"} ELSE {}

\* Only devices of the type DIGITAL_IO are silenced.
silenceDevice(d, silent) ==
  audible' = [x \in Devices |-> IF x = d /\ x \in IODevices THEN ~silent
                                ELSE audible[x]]

\* Mutant of isDeviceOn: what was asked for, not what the feedback shows.
isDeviceOnDesired(d) == d \in IODevices /\ desired[d]

isDeviceOn(d) == d \in IODevices /\ wire[d]

\* respondState, which isDeviceOn calls.
respondState(d) ==
  IF d \in IODevices /\ audible[d]
  THEN {IF wire[d] THEN "is on" ELSE "is off"} ELSE {}

Reads == {"GET_DATA", "VOICE_DATA", "QUERY_DATA", "QUERY_DATA_G", "QUERY_DATA_L"}

\* getData calls read: a switch has none, the ignition refreshes its value.
getData(d) == IF d \in {IGNITION, IGNITION_FB} THEN reading ELSE 0

Refreshed(x) == x.action \in Reads /\ x.target = IGNITION

-----------------------------------------------------------------------------
(* DeviceExecutor.cpp.                                                       *)

checkCondition(con) ==
  \/ con.action = "QUERY_ON" /\ isDeviceOn(con.target)
  \/ con.action = "QUERY_OFF" /\ ~isDeviceOn(con.target)
  \/ con.action = "QUERY_DATA" /\ getData(con.target) = con.value
  \/ con.action = "QUERY_DATA_G" /\ getData(con.target) > con.value
  \/ con.action = "QUERY_DATA_L" /\ getData(con.target) < con.value

Met(con) == con = Always \/ (con.target \in Managed /\ checkCondition(con))

Switch(c) ==
  /\ \/ c.action = "ON" /\ turnOnDevice(c.target)
     \/ c.action = "OFF" /\ turnOffDevice(c.target)
     \/ c.action = "TOGGLE" /\ toggleDevice(c.target)
  /\ reply' = None
  /\ UNCHANGED <<enabled, audible>>

Mode(c) ==
  /\ \/ c.action = "ENABLE" /\ enableDevice(c.target) /\ UNCHANGED audible
     \/ c.action = "DISABLE" /\ disableDevice(c.target) /\ UNCHANGED audible
     \/ /\ c.action \in {"SILENCE", "VOICE"}
        /\ silenceDevice(c.target, c.action = "SILENCE")
        /\ said' = {} /\ UNCHANGED enabled
  /\ reply' = None
  /\ UNCHANGED switchVars

Size(b) == IF b THEN 1 ELSE 0

Query(c) ==
  /\ UNCHANGED <<switchVars, enabled, audible>>
  /\ \/ /\ c.action = "QUERY_ON"
        /\ reply' = Size(isDeviceOn(c.target))
        /\ said' = respondState(c.target)
                     \cup {IF ActualState(c.target) THEN "yes" ELSE "no"}
     \/ /\ c.action = "QUERY_OFF"
        /\ reply' = Size(~isDeviceOn(c.target))
        /\ said' = respondState(c.target)
                     \cup {IF ActualState(c.target) THEN "no" ELSE "yes"}
     \/ c.action = "QUERY_STATE" /\ reply' = Size(ActualState(c.target)) /\ said' = {}
     \/ c.action \in Reads /\ reply' = getData(c.target) /\ said' = {}

\* No executor takes the command.
Ignored == UNCHANGED <<switchVars, enabled, audible>> /\ Quiet

\* callExecute with the condition: reading the ignition for either refreshes it.
Execute(c) ==
  LET taken == Met(c.condition) /\ c.target \in Managed /\ c.action # "NO_OP"
  IN /\ value' = IF Refreshed(c.condition) \/ (taken /\ Refreshed(c)) THEN reading
                 ELSE value
     /\ \/ taken /\ (Switch(c) \/ Mode(c) \/ Query(c))
        \/ ~taken /\ Ignored

-----------------------------------------------------------------------------
(* Executor.cpp: what becomes of a command that was sent.                    *)

Free == {s \in Slots : pending[s] = None}

First(S) == CHOOSE s \in S : \A t \in S : s <= t

Wait(s, c) == pending' = [pending EXCEPT ![s] = c]

Instant(c) == ~c.delay /\ c.interval = 0

\* "on for": the first command turns on, the second one off after the delay.
OnFor(c) == c.text /\ c.delay /\ c.action = "ON"

LaterAction(c) == IF c.interval = 0 THEN "OFF" ELSE "TOGGLE"

FirstHalf(c) == [c EXCEPT !.delay = FALSE, !.interval = 0]

SecondHalf(c) == [c EXCEPT !.action = LaterAction(c), !.condition = Always]

OnForSent(c) ==
  /\ OnFor(c)
  /\ \E s \in Free : s # First(Free)
  /\ Execute(FirstHalf(c))
  /\ Wait(First(Free), SecondHalf(c))
  /\ UNCHANGED <<worldVars, sensed>>

\* With a slot taken, the second half may obtain the slot of the first, which is
\* not marked: the later action is all that is left, and it is done at once.
OnForMerged(c) ==
  /\ OnFor(c)
  /\ Free \notin {{}, Slots}
  /\ Execute([FirstHalf(c) EXCEPT !.action = LaterAction(c)])
  /\ UNCHANGED <<worldVars, sensed, pending>>

DelayedSent(c) ==
  /\ c.delay /\ ~OnFor(c) /\ Free # {}
  /\ Wait(First(Free), c)
  /\ Quiet
  /\ UNCHANGED <<switchVars, enabled, audible, worldVars, value, sensed>>

InstantSent(c) ==
  /\ Instant(c) /\ Free # {}
  /\ Execute(c)
  /\ UNCHANGED <<worldVars, sensed, pending>>

\* An interval without a delay: onReceive recycles it without executing it.
NeverDue(c) ==
  /\ ~c.delay /\ c.interval > 0
  /\ Quiet
  /\ UNCHANGED <<switchVars, enabled, audible, worldVars, value, sensed, pending>>

Send(c) ==
  OnForSent(c) \/ OnForMerged(c) \/ DelayedSent(c) \/ InstantSent(c) \/ NeverDue(c)

Rearmed(c) ==
  IF c.interval > 0 THEN [c EXCEPT !.interval = @ - 1] ELSE None

\* The delay of the command in slot s is over.
Fire(s) ==
  /\ pending[s] # None
  /\ Execute(pending[s])
  /\ Wait(s, Rearmed(pending[s]))
  /\ UNCHANGED <<worldVars, sensed>>

-----------------------------------------------------------------------------
(* The sensors and the world.                                                *)

\* LiveData::writeGlobal, as far as the ignition goes.
writeGlobal ==
  /\ sensed' = (reading > IGNITION_THRSH)
  /\ ignitionExternalFlag' = (sensed' /\ ~desired[IGNITION])
  /\ Quiet
  /\ UNCHANGED <<desired, output, enabled, audible, worldVars, value, pending>>

\* The rider, the wiring and the battery; a device may fail to follow its pin.
World ==
  /\ \/ /\ \E d \in IODevices : wire' = [wire EXCEPT ![d] = ~@]
        /\ UNCHANGED reading
     \/ reading' \in Readings /\ UNCHANGED wire
  /\ Quiet
  /\ UNCHANGED <<switchVars, enabled, audible, value, sensed, pending>>

\* Deep sleep ends with a boot: nothing of this is kept.
Boot ==
  /\ desired' = All(FALSE) /\ output' = All(FALSE)
  /\ enabled' = All(TRUE) /\ audible' = All(TRUE)
  /\ value' = 0 /\ sensed' = FALSE /\ ignitionExternalFlag' = FALSE
  /\ pending' = Empty
  /\ Quiet /\ UNCHANGED worldVars

Next ==
  \/ \E c \in Commands : Send(c)
  \/ \E s \in Slots : Fire(s)
  \/ writeGlobal \/ World \/ Boot

Spec == Init /\ [][Next]_vars

\* The main loop scans the pool for ever, so a delay that ends is acted on.
FairSpec == Spec /\ \A s \in Slots : WF_vars(Fire(s))

-----------------------------------------------------------------------------
(* Properties.                                                               *)

TypeOK ==
  /\ {desired, output, enabled, audible} \subseteq [Devices -> BOOLEAN]
  /\ wire \in [IODevices -> BOOLEAN]
  /\ {reading, value} \subseteq Nat
  /\ {sensed, ignitionExternalFlag} \subseteq BOOLEAN
  /\ pending \in [Slots -> Command \cup {None}]
  /\ reply \in Nat \cup {None}

\* The power manager keeps the bike awake for a rider exactly when the ignition
\* was last found on and is not what we asked for, although this is noted in
\* three places: by on, by off, and by the sampling of the sensors.
ExternalIsUncommanded ==
  ignitionExternalFlag <=> (sensed /\ ~desired[IGNITION])

\* DeviceManager.h:104: a disabled device is not turned on, be it by a command, a
\* toggle, the later half of "on for", a repetition or a boot.
DisabledStaysOff ==
  [][\A d \in Devices : ~enabled[d] /\ ~output[d] => ~output'[d]]_vars

\* A device that is on for some time is turned off in the end, whatever happens to
\* it meanwhile: disabled, silenced, toggled, asked on again, forgotten by a boot.
OnForEnds ==
  \A d \in Devices :
    (\E s \in Slots : /\ pending[s] # None
                      /\ pending[s].target = d /\ pending[s].action = "OFF"
                      /\ pending[s].condition = Always) ~> ~output[d]

\* What a device with feedback says aloud and what the client is told agree
\* with the feedback pin at that moment, whatever was asked of the device before.
QueriesTellWire ==
  [][\A c \in Commands :
       reply' # None /\ c.target \in IODevices /\ InstantSent(c) =>
         LET on_ == wire[c.target]
         IN /\ c.action \in {"QUERY_ON", "QUERY_STATE"} => reply' = Size(on_)
            /\ c.action = "QUERY_OFF" => reply' = Size(~on_)
            /\ "is on" \in said' => on_
            /\ "is off" \in said' => ~on_
            /\ c.action = "QUERY_ON" => ("yes" \in said' <=> reply' = 1)]_vars

-----------------------------------------------------------------------------
(* What the comments say and the code does not do.                           *)

\* Executor.cpp:665: "if we ask a device to on for sometime we need to turn it
\* off after that time": also when that is repeated, the last half leaves it off.
RepeatEndsOff ==
  [][\A s \in Slots :
       /\ Fire(s) /\ pending'[s] = None
       /\ pending[s].text /\ pending[s].action \in {"OFF", "TOGGLE"}
       => ~output'[pending[s].target]]_vars

\* HardwareDevice.h:39: the target ALL requests an action on all devices.
AllReaches ==
  [][\A c \in Commands :
       InstantSent(c) /\ c.target = "ALL" /\ c.action = "OFF" /\ c.condition = Always
       => \A d \in Devices : ~output'[d]]_vars

\* Devices.cpp:20: turning on confirms by the feedback whether it is really on.
ConfirmsActual ==
  [][~desired[IGNITION] /\ desired'[IGNITION] /\ reading > IGNITION_THRSH
     => "failed" \notin said']_vars

\* DeviceManager.h:109: a silenced device gives no response.
SilencedIsQuiet ==
  [][\A d \in IODevices : ~audible[d] /\ enabled'[d] # enabled[d] /\ ~Boot
     => said' = {}]_vars

\* Executor.h:98: a command executes under its condition. A device is turned on
\* only when the condition of some command for it is met.
OnOnlyWhenMet ==
  [][\A d \in Devices : ~output[d] /\ output'[d] =>
       \E c \in Commands : c.target = d /\ Met(c.condition)]_vars
=============================================================================
