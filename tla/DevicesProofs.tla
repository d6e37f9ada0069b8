----------------------------- MODULE DevicesProofs -----------------------------
(***************************************************************************)
(* Proofs about Devices, for any devices, commands, slots and readings.    *)
(* All three properties follow from the effect of the two operations that  *)
(* switch a device, on and off, through every way a command reaches them.  *)
(***************************************************************************)
EXTENDS Devices, TLAPS

\* What one execution leaves of the types, of the note for the power manager and
\* of a disabled device that is off.
SwitchesOK ==
  /\ {desired', output', enabled', audible'} \subseteq [Devices -> BOOLEAN]
  /\ ignitionExternalFlag' \in BOOLEAN

NoteOK ==
  ExternalIsUncommanded => (ignitionExternalFlag' <=> (sensed /\ ~desired'[IGNITION]))

StaysOff ==
  \A d \in Devices : ~enabled[d] /\ ~output[d] => ~output'[d]

LEMMA AllType ==
  /\ All(TRUE) \in [Devices -> BOOLEAN] /\ All(FALSE) \in [Devices -> BOOLEAN]
  /\ Empty \in [Slots -> Command \cup {None}]
  BY DEF All, Empty

\* The operation off: any device, enabled or not.
LEMMA OffEffect ==
  ASSUME TypeOK, NEW d \in Devices, off(d), UNCHANGED <<enabled, audible>>
  PROVE  SwitchesOK /\ NoteOK /\ StaysOff
<1>0. /\ desired' = [desired EXCEPT ![d] = FALSE]
      /\ output' = [output EXCEPT ![d] = FALSE]
      /\ setIgnitionDesired(d, FALSE)
  BY DEF off
<1> USE <1>0, DevicesAssumption DEF setIgnitionDesired, TypeOK, Devices
<1>1. SwitchesOK
  <2>1. desired' \in [Devices -> BOOLEAN] /\ output' \in [Devices -> BOOLEAN]
    OBVIOUS
  <2>2. ignitionExternalFlag' \in BOOLEAN
    OBVIOUS
  <2> QED
    BY <2>1, <2>2 DEF SwitchesOK
<1>2. NoteOK
  BY DEF NoteOK, ExternalIsUncommanded
<1>3. StaysOff
  BY DEF StaysOff
<1> QED
  BY <1>1, <1>2, <1>3

\* Nothing happens to a switch.
LEMMA NothingEffect ==
  ASSUME TypeOK, UNCHANGED switchVars, UNCHANGED <<enabled, audible>>
  PROVE  SwitchesOK /\ NoteOK /\ StaysOff
  BY DEF switchVars, TypeOK, SwitchesOK, NoteOK, StaysOff, ExternalIsUncommanded

\* The operation on: it does nothing to a disabled device.
LEMMA OnEffect ==
  ASSUME TypeOK, NEW d \in Devices, on(d), UNCHANGED <<enabled, audible>>
  PROVE  SwitchesOK /\ NoteOK /\ StaysOff
<1>1. CASE enabled[d]
  <2>0. /\ desired' = [desired EXCEPT ![d] = TRUE]
        /\ output' = [output EXCEPT ![d] = TRUE]
        /\ setIgnitionDesired(d, TRUE)
    BY <1>1 DEF on
  <2> USE <1>1, <2>0, DevicesAssumption DEF setIgnitionDesired, TypeOK, Devices
  <2>1. SwitchesOK
    <3>1. desired' \in [Devices -> BOOLEAN] /\ output' \in [Devices -> BOOLEAN]
      OBVIOUS
    <3>2. ignitionExternalFlag' \in BOOLEAN
      OBVIOUS
    <3> QED
      BY <3>1, <3>2 DEF SwitchesOK
  <2>2. NoteOK
    BY DEF NoteOK, ExternalIsUncommanded
  <2>3. StaysOff
    BY DEF StaysOff
  <2> QED
    BY <2>1, <2>2, <2>3
<1>2. CASE ~enabled[d]
  BY <1>2, NothingEffect DEF on, Nothing
<1> QED
  BY <1>1, <1>2

LEMMA SwitchEffect ==
  ASSUME TypeOK, NEW c \in Command, Switch(c)
  PROVE  SwitchesOK /\ NoteOK /\ StaysOff
<1>0. UNCHANGED <<enabled, audible>>
  BY DEF Switch
<1>1. ASSUME NEW d, turnOnDevice(d) PROVE SwitchesOK /\ NoteOK /\ StaysOff
  BY <1>0, <1>1, OnEffect, NothingEffect DEF turnOnDevice, Nothing
<1>2. ASSUME NEW d, turnOffDevice(d) PROVE SwitchesOK /\ NoteOK /\ StaysOff
  BY <1>0, <1>2, OffEffect, NothingEffect DEF turnOffDevice, Nothing
<1>3. ASSUME NEW d, toggleDevice(d) PROVE SwitchesOK /\ NoteOK /\ StaysOff
  BY <1>0, <1>1, <1>2, <1>3, NothingEffect DEF toggleDevice, Nothing
<1> QED
  BY <1>1, <1>2, <1>3 DEF Switch

LEMMA ModeEffect ==
  ASSUME TypeOK, NEW c \in Command, Mode(c)
  PROVE  SwitchesOK /\ NoteOK /\ StaysOff
<1>1. UNCHANGED switchVars
  BY DEF Mode
<1>2. {enabled', audible'} \subseteq [Devices -> BOOLEAN]
  <2>1. /\ enabled \in [Devices -> BOOLEAN] /\ audible \in [Devices -> BOOLEAN]
    BY DEF TypeOK
  <2>2. CASE enableDevice(c.target) /\ UNCHANGED audible
    BY <2>1, <2>2 DEF enableDevice
  <2>3. CASE disableDevice(c.target) /\ UNCHANGED audible
    BY <2>1, <2>3 DEF disableDevice
  <2>4. CASE silenceDevice(c.target, c.action = "SILENCE") /\ UNCHANGED enabled
    BY <2>1, <2>4 DEF silenceDevice
  <2> QED
    BY <2>2, <2>3, <2>4 DEF Mode
<1> QED
  BY <1>1, <1>2 DEF TypeOK, switchVars, SwitchesOK, NoteOK, StaysOff,
                    ExternalIsUncommanded

\* A command, whatever it is and whether its condition is met, keeps all three.
LEMMA ExecuteEffect ==
  ASSUME TypeOK, NEW c \in Command, Execute(c)
  PROVE  SwitchesOK /\ NoteOK /\ StaysOff
<1>1. CASE Switch(c)
  BY <1>1, SwitchEffect
<1>2. CASE Mode(c)
  BY <1>2, ModeEffect
<1>3. CASE Query(c)
  BY <1>3, NothingEffect DEF Query
<1>4. CASE Ignored
  BY <1>4, NothingEffect DEF Ignored
<1> QED
  BY <1>1, <1>2, <1>3, <1>4 DEF Execute

\* What a command measures and answers is a number.
LEMMA AnswerType ==
  ASSUME TypeOK, NEW c \in Command, Execute(c)
  PROVE  value' \in Nat /\ reply' \in Nat \cup {None}
<1>1. value' \in Nat
  BY DEF Execute, TypeOK
<1>2. CASE Query(c)
  <2>1. ASSUME NEW b PROVE Size(b) \in Nat
    BY DEF Size
  <2>2. ASSUME NEW d PROVE getData(d) \in Nat
    BY DEF getData, TypeOK
  <2>3. \/ \E b : reply' = Size(b)
        \/ reply' = getData(c.target)
    <3>1. CASE c.action = "QUERY_ON"
      BY <1>2, <3>1 DEF Query, Reads
    <3>2. CASE c.action = "QUERY_OFF"
      BY <1>2, <3>2 DEF Query, Reads
    <3>3. CASE c.action \notin {"QUERY_ON", "QUERY_OFF"}
      BY <1>2, <3>3 DEF Query
    <3> QED
      BY <3>1, <3>2, <3>3
  <2> QED
    BY <1>1, <2>1, <2>2, <2>3
<1> QED
  BY <1>1, <1>2 DEF Execute, Switch, Mode, Ignored, Quiet

LEMMA WaitingCommands ==
  ASSUME NEW c \in Command
  PROVE  /\ FirstHalf(c) \in Command /\ SecondHalf(c) \in Command
         /\ [FirstHalf(c) EXCEPT !.action = LaterAction(c)] \in Command
         /\ Rearmed(c) \in Command \cup {None}
<1>1. FirstHalf(c) \in Command
  BY DEF FirstHalf, Command
<1>2. SecondHalf(c) \in Command
  <2>1. Always \in Condition
    BY DEF Always, Condition
  <2> QED
    BY <2>1 DEF SecondHalf, LaterAction, Command, Actions
<1>3. [FirstHalf(c) EXCEPT !.action = LaterAction(c)] \in Command
  BY <1>1 DEF LaterAction, Command, Actions
<1>4. Rearmed(c) \in Command \cup {None}
  BY DEF Rearmed, Command
<1> QED
  BY <1>1, <1>2, <1>3, <1>4

LEMMA WaitType ==
  ASSUME TypeOK, NEW s, NEW c \in Command \cup {None}, Wait(s, c)
  PROVE  pending' \in [Slots -> Command \cup {None}]
  BY DEF Wait, TypeOK

\* A step executes a command, or samples the sensors, or boots, or leaves all
\* switches alone.
LEMMA StepEffect ==
  ASSUME TypeOK, Next
  PROVE  \/ /\ SwitchesOK /\ NoteOK /\ StaysOff /\ sensed' = sensed
         \/ writeGlobal
         \/ Boot
<1>0. Commands \subseteq Command
  BY DevicesAssumption
<1>1. ASSUME NEW c \in Commands, Send(c)
      PROVE SwitchesOK /\ NoteOK /\ StaysOff /\ sensed' = sensed
  <2>1. CASE OnForSent(c)
    BY <1>0, <2>1, ExecuteEffect, WaitingCommands DEF OnForSent
  <2>2. CASE OnForMerged(c)
    BY <1>0, <2>2, ExecuteEffect, WaitingCommands DEF OnForMerged
  <2>3. CASE DelayedSent(c)
    BY <2>3, NothingEffect DEF DelayedSent
  <2>4. CASE InstantSent(c)
    BY <1>0, <2>4, ExecuteEffect DEF InstantSent
  <2>5. CASE NeverDue(c)
    BY <2>5, NothingEffect DEF NeverDue
  <2> QED
    BY <1>1, <2>1, <2>2, <2>3, <2>4, <2>5 DEF Send
<1>2. ASSUME NEW s \in Slots, Fire(s)
      PROVE SwitchesOK /\ NoteOK /\ StaysOff /\ sensed' = sensed
  <2>1. pending[s] \in Command
    BY <1>2 DEF Fire, TypeOK
  <2> QED
    BY <1>2, <2>1, ExecuteEffect DEF Fire
<1>3. CASE World
  BY <1>3, NothingEffect DEF World
<1> QED
  BY <1>1, <1>2, <1>3 DEF Next

\* The slots, the measurements and the answers keep their types.
LEMMA RestType ==
  ASSUME TypeOK, Next
  PROVE  /\ wire' \in [IODevices -> BOOLEAN] /\ {reading', value'} \subseteq Nat
         /\ sensed' \in BOOLEAN
         /\ pending' \in [Slots -> Command \cup {None}]
         /\ reply' \in Nat \cup {None}
<1>0. Commands \subseteq Command /\ Readings \subseteq Nat /\ IGNITION_THRSH \in Nat
  BY DevicesAssumption
<1> DEFINE Goal == /\ wire' \in [IODevices -> BOOLEAN] /\ {reading', value'} \subseteq Nat
                   /\ sensed' \in BOOLEAN
                   /\ pending' \in [Slots -> Command \cup {None}]
                   /\ reply' \in Nat \cup {None}
<1>1. ASSUME NEW c \in Commands, Send(c) PROVE Goal
  <2>1. CASE OnForSent(c)
    BY <1>0, <2>1, AnswerType, WaitingCommands, WaitType
       DEF OnForSent, TypeOK, worldVars
  <2>2. CASE OnForMerged(c)
    BY <1>0, <2>2, AnswerType, WaitingCommands DEF OnForMerged, TypeOK, worldVars
  <2>3. CASE DelayedSent(c)
    BY <1>0, <2>3, WaitType DEF DelayedSent, TypeOK, worldVars, Quiet
  <2>4. CASE InstantSent(c)
    BY <1>0, <2>4, AnswerType DEF InstantSent, TypeOK, worldVars
  <2>5. CASE NeverDue(c)
    BY <2>5 DEF NeverDue, TypeOK, worldVars, Quiet
  <2> QED
    BY <1>1, <2>1, <2>2, <2>3, <2>4, <2>5 DEF Send
<1>2. ASSUME NEW s \in Slots, Fire(s) PROVE Goal
  <2>1. pending[s] \in Command
    BY <1>2 DEF Fire, TypeOK
  <2>2. Rearmed(pending[s]) \in Command \cup {None}
    BY <2>1, WaitingCommands
  <2>3. pending' \in [Slots -> Command \cup {None}]
    BY <1>2, <2>2, WaitType DEF Fire
  <2>4. value' \in Nat /\ reply' \in Nat \cup {None}
    BY <1>2, <2>1, AnswerType DEF Fire
  <2> QED
    BY <1>2, <2>3, <2>4 DEF Fire, TypeOK, worldVars
<1>3. CASE writeGlobal
  BY <1>0, <1>3 DEF writeGlobal, TypeOK, worldVars, Quiet
<1>4. CASE World
  BY <1>0, <1>4 DEF World, TypeOK, worldVars, switchVars, Quiet
<1>5. CASE Boot
  <2>1. /\ wire' = wire /\ reading' = reading /\ value' = 0 /\ sensed' = FALSE
        /\ pending' = Empty /\ reply' = None
    BY <1>5 DEF Boot, worldVars, Quiet
  <2>2. pending' \in [Slots -> Command \cup {None}]
    BY <2>1, AllType
  <2>3. wire' \in [IODevices -> BOOLEAN] /\ reading' \in Nat
    BY <2>1 DEF TypeOK
  <2>4. value' \in Nat /\ sensed' \in BOOLEAN /\ reply' \in Nat \cup {None}
    BY <2>1
  <2> QED
    BY <2>2, <2>3, <2>4
<1> QED
  BY <1>1, <1>2, <1>3, <1>4, <1>5 DEF Next

LEMMA InitType == Init => TypeOK
  BY AllType, DevicesAssumption DEF Init, TypeOK

LEMMA StepType == TypeOK /\ [Next]_vars => TypeOK'
<1> SUFFICES ASSUME TypeOK, [Next]_vars PROVE TypeOK'
  OBVIOUS
<1>1. CASE Next
  <2>1. CASE SwitchesOK
    BY <1>1, <2>1, RestType DEF SwitchesOK, TypeOK
  <2>2. CASE writeGlobal
    BY <1>1, <2>2, RestType DEF writeGlobal, TypeOK
  <2>3. CASE Boot
    BY <1>1, <2>3, RestType DEF Boot, TypeOK, All
  <2> QED
    BY <1>1, <2>1, <2>2, <2>3, StepEffect
<1>2. CASE UNCHANGED vars
  BY <1>2 DEF vars, switchVars, worldVars, TypeOK
<1> QED
  BY <1>1, <1>2

\* The types are right for any devices, any commands and any number of slots.
THEOREM TypeCorrect == Spec => []TypeOK
  BY InitType, StepType, PTL DEF Spec

\* The note of the power manager follows from what was last sensed and asked for:
\* on, off and the sampling, the three places that write it, agree.
THEOREM NoteIsRight == Spec => []ExternalIsUncommanded
<1>1. Init => ExternalIsUncommanded
  BY DEF Init, ExternalIsUncommanded
<1>2. TypeOK /\ ExternalIsUncommanded /\ [Next]_vars => ExternalIsUncommanded'
  <2> SUFFICES ASSUME TypeOK, ExternalIsUncommanded, [Next]_vars
               PROVE  ExternalIsUncommanded'
    OBVIOUS
  <2>1. CASE NoteOK /\ sensed' = sensed
    BY <2>1 DEF NoteOK, ExternalIsUncommanded
  <2>2. CASE writeGlobal
    BY <2>2 DEF writeGlobal, ExternalIsUncommanded
  <2>3. CASE Boot
    BY <2>3 DEF Boot, ExternalIsUncommanded
  <2>4. CASE UNCHANGED vars
    BY <2>4 DEF vars, switchVars, ExternalIsUncommanded
  <2> QED
    BY <2>1, <2>2, <2>3, <2>4, StepEffect
<1> QED
  BY <1>1, <1>2, TypeCorrect, PTL DEF Spec

\* No command, toggle, delayed half, repetition or boot turns a disabled device on.
THEOREM DisabledIsSafe == Spec => DisabledStaysOff
<1>1. TypeOK /\ [Next]_vars =>
        [\A d \in Devices : ~enabled[d] /\ ~output[d] => ~output'[d]]_vars
  <2> SUFFICES ASSUME TypeOK, Next PROVE StaysOff
    BY DEF StaysOff
  <2>1. CASE writeGlobal
    BY <2>1 DEF writeGlobal, StaysOff
  <2>2. CASE Boot
    BY <2>2 DEF Boot, All, StaysOff
  <2> QED
    BY <2>1, <2>2, StepEffect
<1> QED
  BY <1>1, TypeCorrect, PTL DEF Spec, DisabledStaysOff

\* The answer to a query of a device with feedback is read off the feedback pin.
LEMMA QueryEffect ==
  ASSUME TypeOK, NEW c, c.target \in IODevices, Query(c)
  PROVE  LET on_ == wire[c.target]
         IN /\ c.action \in {"QUERY_ON", "QUERY_STATE"} => reply' = Size(on_)
            /\ c.action = "QUERY_OFF" => reply' = Size(~on_)
            /\ "is on" \in said' => on_
            /\ "is off" \in said' => ~on_
            /\ c.action = "QUERY_ON" => ("yes" \in said' <=> reply' = 1)
<1>1. ActualState(c.target) <=> wire[c.target]
  BY DevicesAssumption DEF ActualState, Devices
<1>2. isDeviceOn(c.target) <=> wire[c.target]
  BY DEF isDeviceOn
<1>3. respondState(c.target) \subseteq {IF wire[c.target] THEN "is on" ELSE "is off"}
  BY DEF respondState
<1>4. ASSUME c.action = "QUERY_ON"
      PROVE  /\ reply' = Size(isDeviceOn(c.target))
             /\ said' = respondState(c.target)
                          \cup {IF ActualState(c.target) THEN "yes" ELSE "no"}
  BY <1>4 DEF Query, Reads
<1>5. ASSUME c.action = "QUERY_OFF"
      PROVE  /\ reply' = Size(~isDeviceOn(c.target))
             /\ said' = respondState(c.target)
                          \cup {IF ActualState(c.target) THEN "no" ELSE "yes"}
  BY <1>5 DEF Query, Reads
<1>6. ASSUME c.action \notin {"QUERY_ON", "QUERY_OFF"}
      PROVE  /\ said' = {}
             /\ c.action = "QUERY_STATE" => reply' = Size(ActualState(c.target))
  BY <1>6 DEF Query, Reads
<1>7. CASE wire[c.target] = TRUE
  <2>1. ActualState(c.target) = TRUE /\ isDeviceOn(c.target) = TRUE
    BY <1>1, <1>2, <1>7
  <2>2. respondState(c.target) \subseteq {"is on"}
    BY <1>3, <1>7
  <2> QED
    BY <1>4, <1>5, <1>6, <1>7, <2>1, <2>2 DEF Size
<1>8. CASE wire[c.target] = FALSE
  <2>1. ~ActualState(c.target) /\ isDeviceOn(c.target) = FALSE
    BY <1>1, <1>2, <1>8 DEF isDeviceOn
  <2>2. respondState(c.target) \subseteq {"is off"}
    BY <1>3, <1>8
  <2> ~wire[c.target] /\ Size(wire[c.target]) = 0 /\ Size(~wire[c.target]) = 1
    BY <1>8 DEF Size
  <2>3. CASE c.action = "QUERY_ON"
    <3>1. reply' = 0 /\ said' = respondState(c.target) \cup {"no"}
      BY <1>4, <2>1, <2>3 DEF Size
    <3>2. "yes" \notin said'
      BY <2>2, <3>1
    <3>3. "is on" \notin said'
      BY <2>2, <3>1
    <3>4. reply' # 1 /\ reply' = Size(wire[c.target])
      BY <3>1
    <3> QED
      BY <2>3, <3>2, <3>3, <3>4
  <2>4. CASE c.action = "QUERY_OFF"
    <3>1. reply' = 1 /\ said' = respondState(c.target) \cup {"yes"}
      BY <1>5, <2>1, <2>4 DEF Size
    <3> QED
      BY <2>2, <2>4, <3>1
  <2>5. CASE c.action \notin {"QUERY_ON", "QUERY_OFF"}
    BY <1>6, <2>1, <2>5 DEF Size
  <2> QED
    BY <2>3, <2>4, <2>5
<1> QED
  BY <1>7, <1>8 DEF TypeOK

\* DeviceExecutor.cpp:20-110: whatever was commanded, silenced or delayed before,
\* a client is told what the feedback pin of the device shows.
THEOREM AnswersTellWire == Spec => QueriesTellWire
<1> DEFINE Told(c) ==
      reply' # None /\ c.target \in IODevices /\ InstantSent(c) =>
        LET on_ == wire[c.target]
        IN /\ c.action \in {"QUERY_ON", "QUERY_STATE"} => reply' = Size(on_)
           /\ c.action = "QUERY_OFF" => reply' = Size(~on_)
           /\ "is on" \in said' => on_
           /\ "is off" \in said' => ~on_
           /\ c.action = "QUERY_ON" => ("yes" \in said' <=> reply' = 1)
<1>1. ASSUME TypeOK, NEW c \in Commands PROVE Told(c)
  <2>1. ASSUME reply' # None, InstantSent(c) PROVE Query(c)
    BY <2>1 DEF InstantSent, Execute, Switch, Mode, Ignored, Quiet
  <2> QED
    BY <1>1, <2>1, QueryEffect
<1>2. TypeOK => [\A c \in Commands : Told(c)]_vars
  BY <1>1
<1> QED
  BY <1>2, TypeCorrect, PTL DEF QueriesTellWire
=============================================================================
