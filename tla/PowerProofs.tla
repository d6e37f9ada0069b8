----------------------------- MODULE PowerProofs -----------------------------
(***************************************************************************)
(* Theorems about the power stages, for any idle times, any period of the  *)
(* clock that exceeds them and any length of a pass of the main loop, and  *)
(* about the monitors: of each for itself, and of the two together.        *)
(***************************************************************************)
EXTENDS MCPower, TLAPS

Times == 0 .. Wrap - 1

\* How far t is behind s, on the clock that wraps.
Gap(t, s) == (t + Wrap - s) % Wrap

\* The inductive invariant.  An idle period that a tick has begun is not longer
\* than what its history allows, and never so long that the difference of the
\* two times could have wrapped; the stage is not below what the period earns.
Earned ==
  idleStart # 0 =>
    /\ unseen >= budget \/ Gap(time, idleStart) + budget <= unseen + IDLE_DEEP_SLEEP_MS
    /\ Gap(time, idleStart) < IDLE_DEEP_SLEEP_MS + MaxPause

Staged ==
  stage # "FULL" =>
    /\ idleStart # 0 /\ Gap(time, idleStart) >= IDLE_REDUCED_MS
    /\ stage = "LIGHT_SLEEP" => Gap(time, idleStart) >= IDLE_LIGHT_SLEEP_MS

IInv == TypeOK /\ (phase # "asleep" => Earned /\ Staged)

-----------------------------------------------------------------------------
(* The clock.                                                                *)

LEMMA Remainder ==
  ASSUME PowerAssumption, NEW x \in 0 .. 2 * Wrap - 1
  PROVE  x % Wrap = IF x < Wrap THEN x ELSE x - Wrap
  BY DEF PowerAssumption

LEMMA LaterIs ==
  ASSUME PowerAssumption, NEW t \in Times, NEW d \in 1 .. MaxPause
  PROVE  /\ (t + d) % Wrap = IF t + d < Wrap THEN t + d ELSE t + d - Wrap
         /\ (t + d) % Wrap \in Times
  <1>1. t + d \in 0 .. 2 * Wrap - 1
    BY DEF PowerAssumption, Times
  <1>2. QED
    BY <1>1, Remainder DEF Times, PowerAssumption

LEMMA GapIs ==
  ASSUME PowerAssumption, NEW t \in Times, NEW s \in Times
  PROVE  /\ Gap(t, s) = IF t < s THEN t + Wrap - s ELSE t - s
         /\ Gap(t, s) \in Times
  <1>1. t + Wrap - s \in 0 .. 2 * Wrap - 1
    BY DEF PowerAssumption, Times
  <1>2. QED
    BY <1>1, Remainder DEF Gap, Times, PowerAssumption

\* A difference of times grows with the clock, across the wrap.
LEMMA GapGrows ==
  ASSUME PowerAssumption, NEW t \in Times, NEW s \in Times, NEW d \in 1 .. MaxPause,
         Gap(t, s) < IDLE_DEEP_SLEEP_MS
  PROVE  Gap((t + d) % Wrap, s) = Gap(t, s) + d
  <1>1. Gap(t, s) + d < Wrap
    BY GapIs DEF Times, PowerAssumption
  <1> DEFINE u == (t + d) % Wrap
  <1>2. u \in Times /\ u = IF t + d < Wrap THEN t + d ELSE t + d - Wrap
    BY LaterIs
  <1>3. Gap(u, s) = IF u < s THEN u + Wrap - s ELSE u - s
    BY <1>2, GapIs
  <1>4. Gap(t, s) = IF t < s THEN t + Wrap - s ELSE t - s
    BY GapIs
  <1> HIDE DEF u
  <1>5. Gap(u, s) = Gap(t, s) + d
    BY <1>1, <1>2, <1>3, <1>4 DEF Times, PowerAssumption
  <1>6. QED
    BY <1>5 DEF u

\* A history that is cut off is its maximum or what it was.
LEMMA CapType ==
  ASSUME NEW max \in Nat, NEW n \in Nat
  PROVE  Cap(n, max) \in 0 .. max /\ (Cap(n, max) = max \/ Cap(n, max) = n)
  BY DEF Cap

-----------------------------------------------------------------------------
(* The type invariant.                                                       *)

LEMMA PassType ==
  ASSUME PowerAssumption, TypeOK, NEW d \in 1 .. MaxPause
  PROVE  /\ (time + d) % Wrap \in Times
         /\ Cap(unseen + d, IDLE_DEEP_SLEEP_MS) \in 0 .. IDLE_DEEP_SLEEP_MS
         /\ (IF Ridden THEN Cap(ridden + d, MaxPause + 2) ELSE 0) \in 0 .. MaxPause + 2
  <1>1. time \in Times /\ unseen + d \in Nat /\ ridden + d \in Nat
        /\ MaxPause + 2 \in Nat /\ IDLE_DEEP_SLEEP_MS \in Nat
    BY DEF TypeOK, PowerAssumption, Times
  <1>2. (time + d) % Wrap \in Times
    BY <1>1, LaterIs
  <1>3. Cap(unseen + d, IDLE_DEEP_SLEEP_MS) \in 0 .. IDLE_DEEP_SLEEP_MS
    BY <1>1, CapType
  <1>4. Cap(ridden + d, MaxPause + 2) \in 0 .. MaxPause + 2
    BY <1>1, CapType
  <1>5. 0 \in 0 .. MaxPause + 2
    BY <1>1
  <1>6. QED
    BY <1>2, <1>3, <1>4, <1>5

LEMMA StartType ==
  ASSUME PowerAssumption, TypeOK
  PROVE  /\ Start \in Times /\ PastStart \in Times
         /\ PastStart = Wrap - (IDLE_DEEP_SLEEP_MS - RECONNECT_WINDOW_MS)
  <1>1. Wrap - (IDLE_DEEP_SLEEP_MS - RECONNECT_WINDOW_MS) \in 1 .. Wrap - 1
    BY DEF PowerAssumption
  <1>2. PastStart = Wrap - (IDLE_DEEP_SLEEP_MS - RECONNECT_WINDOW_MS)
    BY <1>1, Remainder DEF PastStart, PowerAssumption
  <1>3. QED
    BY <1>1, <1>2 DEF Start, TypeOK, Times

LEMMA InitInv == ASSUME PowerAssumption, Init PROVE IInv
  <1>1. 0 \in 0 .. Wrap - 1 /\ 0 \in 0 .. IDLE_DEEP_SLEEP_MS /\ 0 \in 0 .. MaxPause + 2
    BY DEF PowerAssumption
  <1>2. {wifi, bt, key, relay, running, ignitionExternalFlag} \subseteq BOOLEAN
    BY DEF Init
  <1>3. globalState \in [ignition : BOOLEAN, engine : BOOLEAN]
    BY DEF Init, Nothing
  <1>4. TypeOK
    BY <1>1, <1>2, <1>3 DEF Init, TypeOK, Stages
  <1>5. QED
    BY <1>4 DEF Init, IInv, Earned, Staged

\* What is on the bike, and what was sampled of it, is true or false.
LEMMA WorldType ==
  ASSUME PowerAssumption, TypeOK, Connection \/ Rider \/ Command \/ Executed
  PROVE  TypeOK'
  <1> USE DEF TypeOK, powerVars, bikeVars, sampleVars, history
  <1>1. CASE Connection
    BY <1>1 DEF Connection
  <1>2. CASE Rider
    BY <1>2, 0 \in 0 .. MaxPause + 2 DEF Rider, PowerAssumption
  <1>3. CASE Command
    BY <1>3, 0 \in 0 .. MaxPause + 2 DEF Command, setIgnitionDesired, PowerAssumption
  <1>4. CASE Executed
    BY <1>4 DEF Executed
  <1>5. QED
    BY <1>1, <1>2, <1>3, <1>4

\* setIgnitionDesired notes a truth value, and so does each sample.
LEMMA monitorType ==
  ASSUME PowerAssumption, TypeOK, monitor
  PROVE  TypeOK'
  <1> USE DEF TypeOK, powerVars, bikeVars, sampleVars, history
  <1>1. UNCHANGED <<powerVars, time, wifi, bt, bikeVars, history>> /\ phase' = "tick"
    BY DEF monitor
  <1>2. CASE UNCHANGED <<globalState, ignitionExternalFlag>> /\ ldm_d' = (time + 1) % Wrap
    <2>1. ldm_d' \in 0 .. Wrap - 1
      BY <1>2, LaterIs DEF Times, PowerAssumption
    <2>2. QED
      BY <1>1, <1>2, <2>1
  <1>3. CASE UNCHANGED sampleVars
    BY <1>1, <1>3
  <1>4. CASE writeGlobal /\ UNCHANGED ldm_d
    <2>1. globalState' \in [ignition : BOOLEAN, engine : BOOLEAN]
      BY <1>4 DEF writeGlobal, Ignition
    <2>2. ignitionExternalFlag' \in BOOLEAN
      BY <1>4 DEF writeGlobal, setIgnitionDesired
    <2>3. QED
      BY <1>1, <1>4, <2>1, <2>2
  <1>5. QED
    BY <1>2, <1>3, <1>4 DEF monitor

LEMMA tickType ==
  ASSUME PowerAssumption, TypeOK, tick \/ Boot
  PROVE  TypeOK'
  <1>z. 0 \in 0 .. Wrap - 1 /\ 0 \in 0 .. IDLE_DEEP_SLEEP_MS /\ 0 \in 0 .. MaxPause + 2
        /\ 1 \in 0 .. MaxPause + 2 /\ 1 \in 1 .. MaxPause
    BY DEF PowerAssumption
  <1>1. CASE TickConnected
    <2>1. /\ time' \in Times /\ ridden' \in 0 .. MaxPause + 2
      BY <1>1, PassType DEF TickConnected
    <2>2. QED
      BY <1>1, <1>z, <2>1 DEF TickConnected, Active, Seen, TypeOK, Times, Stages, bikeVars, sampleVars
  <1>2. CASE TickIdle
    <2>1. \E d \in 1 .. MaxPause : Pass(d)
      BY <1>2, <1>z DEF TickIdle
    <2>2. /\ time' \in Times /\ unseen' \in 0 .. IDLE_DEEP_SLEEP_MS
          /\ ridden' \in 0 .. MaxPause + 2
      BY <2>1, PassType DEF Pass
    <2>3. idleStart' \in Times /\ stage' \in Stages /\ phase' \in {"wake", "execute"}
      BY <1>2, StartType DEF TickIdle, IdleStage, Stages
    <2>4. UNCHANGED <<wifi, bt, bikeVars, sampleVars, budget>>
      BY <1>2 DEF TickIdle
    <2>5. QED
      BY <2>2, <2>3, <2>4 DEF TypeOK, Times, bikeVars, sampleVars
  <1>3. CASE Wake
    BY <1>3, <1>z DEF Wake, Active, Seen, TypeOK, Stages, powerVars, bikeVars, sampleVars
  <1>4. CASE DeepSleep
    BY <1>4 DEF DeepSleep, TypeOK, powerVars, sampleVars, history
  <1>5. CASE Boot
    BY <1>5, <1>z, StartType DEF Boot, TypeOK, Times, Stages, Nothing, bikeVars
  <1>6. QED
    BY <1>1, <1>2, <1>3, <1>4, <1>5 DEF tick

LEMMA TypeStep == ASSUME PowerAssumption, TypeOK, [Next]_vars PROVE TypeOK'
  <1>1. CASE UNCHANGED vars
    BY <1>1 DEF vars, TypeOK, powerVars, bikeVars, sampleVars, history
  <1>2. QED
    BY <1>1, WorldType, monitorType, tickType DEF Next, MainLoop

-----------------------------------------------------------------------------
(* The idle period.                                                          *)

\* Where neither the period nor the clock nor its history move, it stays earned.
LEMMA PeriodStays ==
  ASSUME Earned, Staged, UNCHANGED <<idleStart, stage, time, unseen, budget>>
  PROVE  Earned' /\ Staged'
  BY DEF Earned, Staged, Gap

\* One tick without a connection: the period may begin now, and grows.
LEMMA PeriodGrows ==
  ASSUME PowerAssumption, TypeOK, Earned, TickIdle
  PROVE  Earned' /\ Staged'
  <1>1. PICK d \in 1 .. MaxPause : Pass(d)
    <2>1. 1 \in 1 .. MaxPause
      BY DEF PowerAssumption
    <2>2. QED
      BY <2>1 DEF TickIdle
  <1>2. time \in Times /\ Start \in Times /\ unseen \in Nat
    BY StartType DEF TypeOK, Times
  <1>3. Gap(time, Start) < IDLE_DEEP_SLEEP_MS /\ Gap(time, Start) \in Times
    BY <1>2, GapIs DEF TickIdle, Gap, Idle
  <1>4. Gap(time', idleStart') = Gap(time, Start) + d
    BY <1>1, <1>2, <1>3, GapGrows DEF Pass, TickIdle
  <1>5. unseen' = IDLE_DEEP_SLEEP_MS \/ unseen' = unseen + d
    BY <1>1 DEF Pass, Cap
  <1>6. budget' = budget /\ budget \in Nat /\ budget <= IDLE_DEEP_SLEEP_MS
    BY DEF TickIdle, TypeOK, PowerAssumption
  <1>7. idleStart = 0 => Gap(time, Start) = 0
    BY <1>2, GapIs DEF Start, Times, PowerAssumption
  <1>8. unseen >= budget \/ Gap(time, Start) + budget <= unseen + IDLE_DEEP_SLEEP_MS
    BY <1>2, <1>6, <1>7 DEF Earned, Start, PowerAssumption
  <1>9. Earned'
    BY <1>2, <1>3, <1>4, <1>5, <1>6, <1>8 DEF Earned, PowerAssumption, Times
  <1>10. ASSUME stage' # "FULL" PROVE idleStart' # 0
    <2>1. Gap(time, Start) # 0
      BY <1>10 DEF TickIdle, IdleStage, Gap, Idle, PowerAssumption
    <2>2. QED
      BY <2>1, <1>7, <1>10, GapIs DEF TickIdle, Start
  <1>11. Staged'
    BY <1>3, <1>4, <1>10 DEF Staged, TickIdle, IdleStage, Gap, Idle, PowerAssumption, Times
  <1>12. QED
    BY <1>9, <1>11

\* A boot begins the period in the past, by what its budget is shorter.
LEMMA PeriodAtBoot ==
  ASSUME PowerAssumption, TypeOK, Boot
  PROVE  Earned' /\ Staged'
  <1>1. PastStart \in Times /\ 0 \in Times
    BY StartType DEF Times, PowerAssumption
  <1>2. Gap(0, PastStart) = IF 0 < PastStart THEN 0 + Wrap - PastStart ELSE 0 - PastStart
    BY <1>1, GapIs
  <1>3. PastStart = Wrap - (IDLE_DEEP_SLEEP_MS - RECONNECT_WINDOW_MS)
    BY StartType
  <1>4. Gap(0, PastStart) = IDLE_DEEP_SLEEP_MS - RECONNECT_WINDOW_MS
    BY <1>2, <1>3 DEF PowerAssumption
  <1>5. QED
    BY <1>4 DEF Boot, Earned, Staged, PowerAssumption

LEMMA StepInv == ASSUME PowerAssumption, IInv, [Next]_vars PROVE IInv'
  <1> USE DEF IInv
  <1>1. TypeOK'
    BY TypeStep
  <1>2. ASSUME UNCHANGED <<idleStart, stage, time, unseen, budget>>, phase # "asleep"
        PROVE  IInv'
    BY <1>1, <1>2, PeriodStays
  <1>3. CASE TickConnected
    BY <1>1, <1>3 DEF TickConnected, Active, Earned, Staged
  <1>4. CASE TickIdle
    BY <1>1, <1>4, PeriodGrows DEF TickIdle
  <1>5. CASE Wake
    <2>1. CASE anyConnected
      BY <1>1, <1>5, <2>1 DEF Wake, Active, Earned, Staged
    <2>2. CASE ~anyConnected
      BY <1>2, <1>5, <2>2 DEF Wake, powerVars
    <2>3. QED
      BY <2>1, <2>2
  <1>6. CASE DeepSleep
    BY <1>1, <1>6 DEF DeepSleep
  <1>7. CASE Boot
    BY <1>1, <1>7, PeriodAtBoot
  <1>8. CASE Connection \/ Rider \/ Command \/ Executed \/ monitor
    <2>1. UNCHANGED <<idleStart, stage, time, unseen, budget>>
      BY <1>8 DEF Connection, Rider, Command, Executed, monitor, powerVars, history
    <2>2. phase = "asleep" => phase' = "asleep"
      BY <1>8 DEF Connection, Rider, Command, Executed, monitor
    <2>3. QED
      BY <1>1, <1>2, <2>1, <2>2
  <1>9. CASE UNCHANGED vars
    BY <1>1, <1>2, <1>9 DEF vars, powerVars, history
  <1>10. QED
    BY <1>3, <1>4, <1>5, <1>6, <1>7, <1>8, <1>9 DEF Next, MainLoop, tick

LEMMA Invariance == ASSUME PowerAssumption PROVE Spec => []IInv
  <1>1. Init => IInv
    BY InitInv
  <1>2. IInv /\ [Next]_vars => IInv'
    BY StepInv
  <1>3. QED
    BY <1>1, <1>2, PTL DEF Spec

-----------------------------------------------------------------------------

\* Clock, idle start and sample time stay within the period of eccles_millis(),
\* and the stages and the sampled state are what they are declared to be.
THEOREM TypeCorrect == ASSUME PowerAssumption PROVE Spec => []TypeOK
  <1>1. IInv => TypeOK
    BY DEF IInv
  <1>2. QED
    BY <1>1, Invariance, PTL

\* PowerManager.cpp:180-233: whatever connects, commands or rides, and however
\* often the clock wraps, deep sleep begins only when no tick has seen activity
\* for the whole idle time, or for the reconnect window after the timer's boot.
THEOREM SleepIsEarned == ASSUME PowerAssumption PROVE Spec => DeepSleepEarned
  <1> DEFINE A == phase' = "asleep" /\ phase # "asleep" => unseen >= budget
  <1>1. IInv /\ [Next]_vars => [A]_vars
    <2> SUFFICES ASSUME IInv, Next, phase' = "asleep", phase # "asleep"
                 PROVE  unseen >= budget
      OBVIOUS
    <2>1. DeepSleep
      BY DEF Next, MainLoop, tick, Connection, Rider, Command, Executed, monitor,
             TickConnected, TickIdle, Wake, Boot
    <2>2. time \in Times /\ Start \in Times /\ unseen \in Nat /\ budget \in Nat
      BY StartType DEF IInv, TypeOK, Times, PowerAssumption
    <2>3. Gap(time, Start) >= IDLE_DEEP_SLEEP_MS
      BY <2>1 DEF DeepSleep, Gap, Idle
    <2>4. idleStart # 0 /\ Start = idleStart
      BY <2>2, <2>3, GapIs DEF Start, PowerAssumption, Times
    <2>5. QED
      BY <2>2, <2>3, <2>4, GapIs DEF IInv, Earned, PowerAssumption, Times
  <1>2. QED
    BY <1>1, Invariance, PTL DEF Spec, DeepSleepEarned

\* PowerManager.cpp:194-215: within one idle period a later tick never finds a
\* higher stage; only a connection that a tick has seen, or a boot, ends it.
THEOREM StagesGoDown == ASSUME PowerAssumption PROVE Spec => DownwardOnIdle
  <1> DEFINE A == Level(stage') > Level(stage) => unseen' = 0
  <1>1. IInv /\ [Next]_vars => [A]_vars
    <2> SUFFICES ASSUME IInv, Next, Level(stage') > Level(stage)
                 PROVE  unseen' = 0
      OBVIOUS
    <2>1. CASE TickIdle
      <3>1. IInv /\ phase # "asleep" /\ stage' = IdleStage(Gap(time, Start))
        BY <2>1 DEF TickIdle, Gap, Idle
      <3>2. Gap(time, Start) \in Nat
        BY StartType, GapIs DEF IInv, TypeOK, Times
      <3>3. QED
        BY <3>1, <3>2 DEF IInv, Staged, Start, IdleStage, Level, TypeOK, Stages, PowerAssumption
    <2>2. CASE TickConnected \/ Wake \/ Boot
      BY <2>2 DEF TickConnected, Wake, Boot, Seen, Active, powerVars, Level
    <2>3. CASE UNCHANGED stage
      BY <2>3 DEF IInv, TypeOK, Stages, Level
    <2>4. QED
      BY <2>1, <2>2, <2>3 DEF Next, MainLoop, tick, Connection, Rider, Command, Executed,
             monitor, DeepSleep, powerVars
  <1>2. QED
    BY <1>1, Invariance, PTL DEF Spec, DownwardOnIdle

-----------------------------------------------------------------------------
(* The ride.                                                                 *)

\* What tick knows of a rider is what the last pass of LiveData sampled.
RiderSampled == globalState.engine \/ (globalState.ignition /\ ignitionExternalFlag)

\* The sampling starts with the clock at 1, so that of all passes only those at
\* 0, after a boot or a wrap, do not sample; and then the ride is no older than
\* one pass, or a connection has just ended the idle period.
RideInv ==
  /\ ldm_d \in {0, 1}
  /\ phase # "asleep" =>
       /\ ~Ridden => ridden = 0
       /\ ldm_d = 0 => time = 0 /\ phase \in {"execute", "monitor"}
       /\ time = 0 => ridden <= MaxPause \/ idleStart = 0
       /\ phase = "tick" /\ time # 0 /\ ridden # 0 => RiderSampled

LEMMA InitRide == ASSUME PowerAssumption, Init PROVE RideInv
  BY DEF PowerAssumption, Init, RideInv, Ridden

\* No time passes and nothing is sampled: the rider and the commands may end the
\* ride, or begin one.
LEMMA WorldRide ==
  ASSUME PowerAssumption, TypeOK, RideInv, Connection \/ Rider \/ Command \/ Executed
  PROVE  RideInv'
  <1>1. CASE Connection \/ Executed
    BY <1>1 DEF Connection, Executed, RideInv, RiderSampled, Ridden, powerVars, bikeVars,
       sampleVars, history
  <1>2. CASE Rider
    BY <1>2 DEF Rider, RideInv, RiderSampled, Ridden, powerVars, sampleVars, TypeOK,
       PowerAssumption
  <1>3. CASE Command
    BY <1>3 DEF Command, RideInv, Ridden, powerVars, TypeOK, PowerAssumption
  <1>4. QED
    BY <1>1, <1>2, <1>3

\* A pass whose clock is not at 0 samples.
LEMMA monitorRide ==
  ASSUME PowerAssumption, TypeOK, RideInv, monitor
  PROVE  RideInv'
  <1>1. UNCHANGED <<powerVars, time, bikeVars, history>> /\ phase = "monitor" /\ phase' = "tick"
    BY DEF monitor
  <1>2. UNCHANGED <<idleStart, time, key, relay, running, ridden>>
    BY <1>1 DEF powerVars, bikeVars, history
  <1>3. CASE ldm_d = 0
    <2>1. time = 0 /\ ldm_d' = (0 + 1) % Wrap
      BY <1>1, <1>3 DEF monitor, RideInv
    <2>2. ldm_d' = 1
      BY <2>1, 1 < Wrap, 1 \in 0 .. 2 * Wrap - 1, Remainder DEF PowerAssumption
    <2>3. QED
      BY <1>1, <1>2, <2>1, <2>2 DEF RideInv, Ridden
  <1>4. CASE ldm_d = 1 /\ time = 0
    <2>1. UNCHANGED ldm_d
      BY <1>4 DEF monitor, sampleVars
    <2>2. QED
      BY <1>1, <1>2, <1>4, <2>1 DEF RideInv, Ridden
  <1>5. CASE ldm_d = 1 /\ time # 0
    <2>1. writeGlobal /\ UNCHANGED ldm_d
      BY <1>5 DEF monitor, TypeOK, PowerAssumption
    <2>2. Ridden => RiderSampled'
      BY <2>1 DEF writeGlobal, setIgnitionDesired, RiderSampled, Ignition, Ridden
    <2>3. QED
      BY <1>1, <1>2, <1>5, <2>1, <2>2 DEF RideInv, Ridden
  <1>6. QED
    BY <1>3, <1>4, <1>5 DEF RideInv

LEMMA tickRide ==
  ASSUME PowerAssumption, TypeOK, RideInv, tick \/ Boot
  PROVE  RideInv'
  <1>z. MaxPause \in Nat \ {0} /\ 1 \in 1 .. MaxPause /\ ridden \in Nat /\ time \in Times
        /\ MaxPause < Wrap /\ Wrap \in Nat
    BY DEF TypeOK, PowerAssumption, Times
  <1>1. CASE TickConnected
    <2>1. PICK d \in 1 .. MaxPause :
            /\ time' = (time + d) % Wrap
            /\ ridden' = IF Ridden THEN Cap(ridden + d, MaxPause + 2) ELSE 0
      BY <1>1 DEF TickConnected
    <2>2. ldm_d = 1
      BY <1>1 DEF TickConnected, RideInv
    <2>3. QED
      BY <1>1, <2>1, <2>2 DEF TickConnected, Active, RideInv, Ridden, bikeVars, sampleVars
  <1>2. CASE TickIdle
    <2>1. PICK d \in 1 .. MaxPause : Pass(d)
      BY <1>2, <1>z DEF TickIdle
    <2>2. ldm_d = 1 /\ phase' \in {"wake", "execute"} /\ phase = "tick"
      BY <1>2 DEF TickIdle, RideInv
    <2>3. UNCHANGED <<key, relay, running, ldm_d>>
      BY <1>2 DEF TickIdle, bikeVars, sampleVars
    <2>4. ~Ridden' => ridden' = 0
      BY <2>1, <2>3 DEF Pass, Ridden
    <2>5. ASSUME time' = 0 PROVE ridden' <= MaxPause
      <3>1. time' = IF time + d < Wrap THEN time + d ELSE time + d - Wrap
        BY <1>z, <2>1, LaterIs DEF Pass
      <3>2. time # 0
        BY <1>z, <2>5, <3>1
      <3>3. ~RiderSampled
        BY <1>2 DEF TickIdle, anyConnected, RiderSampled
      <3>4. ridden = 0
        BY <2>2, <3>2, <3>3 DEF RideInv
      <3>5. QED
        BY <1>z, <2>1, <3>4 DEF Pass, Cap
    <2>6. QED
      BY <2>2, <2>3, <2>4, <2>5 DEF RideInv
  <1>3. CASE Wake
    BY <1>3 DEF Wake, Active, RideInv, Ridden, powerVars, bikeVars, sampleVars
  <1>4. CASE DeepSleep
    BY <1>4 DEF DeepSleep, RideInv, sampleVars
  <1>5. CASE Boot
    BY <1>5, <1>z DEF Boot, RideInv, Ridden, bikeVars
  <1>6. QED
    BY <1>1, <1>2, <1>3, <1>4, <1>5 DEF tick

\* PowerManager.cpp:130-150, LiveData.cpp:123-150: however the passes, the
\* commands and the wrap of the clock fall, the bike that somebody has ridden for
\* longer than one pass of the main loop does not go into deep sleep.
THEOREM RideIsAwake == ASSUME PowerAssumption PROVE Spec => NoSleepOnRide
  <1> DEFINE A == phase' = "asleep" /\ phase # "asleep" => ridden <= MaxPause
  <1>1. Init => RideInv
    BY InitRide
  <1>2. IInv /\ RideInv /\ [Next]_vars => RideInv'
    <2> SUFFICES ASSUME IInv, RideInv, [Next]_vars PROVE RideInv'
      OBVIOUS
    <2>1. CASE UNCHANGED vars
      BY <2>1 DEF vars, RideInv, RiderSampled, Ridden, powerVars, bikeVars, sampleVars, history
    <2>2. QED
      BY <2>1, WorldRide, monitorRide, tickRide DEF IInv, Next, MainLoop
  <1>3. IInv /\ RideInv /\ [Next]_vars => [A]_vars
    <2> SUFFICES ASSUME IInv, RideInv, Next, phase' = "asleep", phase # "asleep"
                 PROVE  ridden <= MaxPause
      OBVIOUS
    <2>1. DeepSleep
      BY DEF Next, MainLoop, tick, Connection, Rider, Command, Executed, monitor,
             TickConnected, TickIdle, Wake, Boot
    <2>2. MaxPause \in Nat /\ time \in Times
      BY DEF IInv, TypeOK, Times, PowerAssumption
    <2>3. CASE time = 0
      <3>1. idleStart # 0
        <4>1. SUFFICES ASSUME idleStart = 0 PROVE FALSE
          OBVIOUS
        <4>2. Gap(0, 0) >= IDLE_DEEP_SLEEP_MS
          BY <2>1, <2>3, <4>1 DEF DeepSleep, Gap, Idle, Start
        <4>3. Gap(0, 0) = 0
          BY <2>2, <2>3, GapIs
        <4>4. QED
          BY <4>2, <4>3 DEF PowerAssumption
      <3>2. QED
        BY <2>3, <3>1 DEF RideInv
    <2>4. CASE time # 0
      BY <2>1, <2>2, <2>4 DEF DeepSleep, anyConnected, RiderSampled, RideInv
    <2>5. QED
      BY <2>3, <2>4
  <1>4. QED
    BY <1>1, <1>2, <1>3, Invariance, PTL DEF Spec, NoSleepOnRide

-----------------------------------------------------------------------------
(* The monitors, for any devices, sensors and requests.                      *)

\* What prevState remembers of a row that has fired and was not seen unmet since:
\* a switch is still in the state that fired, a sensor has not been seen unmet.
\* Conversely a sensor's row that remembers "ON" has fired.
Remembered ==
  \A r \in M!Valid :
    /\ r \in spent /\ monitors[r].type \in M!Switches => monitors[r].prevState = monitors[r].type
    /\ r \in spent /\ monitors[r].type \in M!Values => monitors[r].prevState # "OFF"
    /\ monitors[r].type \in M!Values /\ monitors[r].prevState = "ON" => r \in spent

\* A monitor in the table watches what its type is for.
Watching ==
  \A r \in M!Valid :
    /\ monitors[r].target \in Devices \cup Sensors
    /\ monitors[r].target \in Sensors <=> monitors[r].type \in M!Values

MonitorsInv == M!TypeOK /\ Remembered /\ Watching

LEMMA ClockRange == ASSUME M!MonitorAssumption PROVE \A t \in Nat : t % MonitorWrap \in 0 .. MonitorWrap - 1
  BY DEF M!MonitorAssumption

LEMMA EmptyRowType == M!EmptyRow \in M!RowType
  BY DEF M!EmptyRow, M!RowType

LEMMA MonitorsInit == ASSUME M!MonitorAssumption, M!Init PROVE MonitorsInv
  <1>1. monitors \in [M!Rows -> M!RowType] /\ M!Valid = {}
    BY EmptyRowType DEF M!Init, M!Valid, M!EmptyRow
  <1>2. 0 \in 0 .. MonitorWrap - 1
    BY DEF M!MonitorAssumption
  <1>3. begins \in 0 .. MonitorWrap - 1 /\ clock \in 0 .. MonitorWrap - 1 /\ due \in BOOLEAN
    BY <1>2 DEF M!Init
  <1>4. /\ passed \in SUBSET M!Rows /\ spent \in SUBSET M!Rows /\ fresh \in SUBSET M!Rows
        /\ stopped \in SUBSET M!Rows /\ age \in 0 .. 2
    BY DEF M!Init
  <1>5. state \in [Devices -> {"ON", "OFF"}] /\ level \in [Sensors -> Levels]
    BY DEF M!Init
  <1>6. M!TypeOK
    BY <1>1, <1>3, <1>4, <1>5 DEF M!TypeOK
  <1>7. Remembered /\ Watching
    BY <1>1 DEF Remembered, Watching
  <1>8. QED
    BY <1>6, <1>7 DEF MonitorsInv

LEMMA ChangeInv == ASSUME M!MonitorAssumption, MonitorsInv, M!Change PROVE MonitorsInv'
  <1>1. state' \in [Devices -> {"ON", "OFF"}] /\ level' \in [Sensors -> Levels]
    BY DEF M!Change, MonitorsInv, M!TypeOK
  <1>2. QED
    BY <1>1 DEF M!Change, MonitorsInv, M!TypeOK, Remembered, Watching, M!Valid

\* A new monitor has fired in no check.
LEMMA startInv ==
  ASSUME M!MonitorAssumption, MonitorsInv, NEW m \in Requests, M!startMonitor(m)
  PROVE  MonitorsInv'
  <1> USE DEF MonitorsInv, M!TypeOK
  <1>1. PICK r \in M!Unused : /\ monitors' = [monitors EXCEPT ![r] = M!Row(r, m)]
                            /\ fresh' = fresh \cup {r}
                            /\ spent' = spent \ {r} /\ passed' = passed \ {r}
    BY DEF M!startMonitor
  <1>2. r \in M!Rows /\ ~monitors[r].valid
    BY DEF M!Unused
  <1>3. /\ m \in M!Request /\ m.target # None
        /\ m.target \in Devices \cup Sensors /\ (m.target \in Sensors <=> m.type \in M!Values)
    BY DEF M!MonitorAssumption, M!Request
  <1>4. M!Row(r, m) \in M!RowType
    BY <1>3 DEF M!Row, M!RowType, M!Request
  <1>5. \A q \in M!Rows : monitors'[q] = IF q = r THEN M!Row(r, m) ELSE monitors[q]
    BY <1>1, <1>2
  <1>6. monitors' \in [M!Rows -> M!RowType]
    BY <1>1, <1>4
  <1>7. (\A q \in M!Valid : monitors[q].target # None)'
    BY <1>3, <1>5 DEF M!Valid, M!Row
  <1>8. M!TypeOK'
    BY <1>1, <1>2, <1>6, <1>7 DEF M!startMonitor
  <1>9. Remembered'
    BY <1>1, <1>5 DEF Remembered, M!Valid, M!Row
  <1>10. Watching'
    BY <1>3, <1>5 DEF Watching, M!Valid, M!Row
  <1>11. QED
    BY <1>8, <1>9, <1>10

\* A row that is emptied has fired in no check either.
LEMMA stopInv ==
  ASSUME M!MonitorAssumption, MonitorsInv, NEW id \in Ids, M!stopMonitor(id)
  PROVE  MonitorsInv'
  <1> USE DEF MonitorsInv, M!TypeOK
  <1>1. PICK r \in M!Named(id) :
          /\ monitors' = [monitors EXCEPT ![r] = M!EmptyRow]
          /\ spent' = spent \ {r} /\ passed' = passed \ {r} /\ fresh' = fresh \ {r}
    BY DEF M!stopMonitor, M!Emptied
  <1>2. r \in M!Rows
    BY DEF M!Named
  <1>3. \A q \in M!Rows : monitors'[q] = IF q = r THEN M!EmptyRow ELSE monitors[q]
    BY <1>1, <1>2
  <1>4. monitors' \in [M!Rows -> M!RowType]
    BY <1>1, EmptyRowType
  <1>5. stopped' \in SUBSET M!Rows
    BY DEF M!stopMonitor, M!Named
  <1>6. (\A q \in M!Valid : monitors[q].target # None)'
    BY <1>3 DEF M!Valid, M!EmptyRow
  <1>7. M!TypeOK'
    BY <1>1, <1>2, <1>4, <1>5, <1>6 DEF M!stopMonitor
  <1>8. Remembered'
    BY <1>1, <1>3 DEF Remembered, M!Valid, M!EmptyRow
  <1>9. Watching'
    BY <1>3 DEF Watching, M!Valid, M!EmptyRow
  <1>10. QED
    BY <1>7, <1>8, <1>9

LEMMA PassOverInv == ASSUME M!MonitorAssumption, MonitorsInv, M!PassOver PROVE MonitorsInv'
  <1> USE DEF MonitorsInv, M!TypeOK
  <1>1. PICK d \in {1, 2} : /\ clock' = (clock + d) % MonitorWrap
                            /\ age' = IF age + d > 2 THEN 2 ELSE age + d
    BY DEF M!PassOver
  <1>2. clock' \in 0 .. MonitorWrap - 1 /\ age' \in 0 .. 2
    BY <1>1, ClockRange
  <1>3. QED
    BY <1>2 DEF M!PassOver, Remembered, Watching, M!Valid

\* The row of a monitor that has fired does not fire before it was seen unmet.
LEMMA SpentIsSilent ==
  ASSUME MonitorsInv, NEW r \in M!Valid, r \in spent
  PROVE  ~M!Onset(monitors[r])
  BY DEF MonitorsInv, Remembered, M!Onset, M!Met, M!Switches, M!Values

LEMMA AfterType ==
  ASSUME M!MonitorAssumption, MonitorsInv, NEW r \in M!Valid
  PROVE  M!After(monitors[r]) \in {"ON", "OFF", "UNKNOWN"}
  <1>1. monitors[r] \in M!RowType /\ monitors[r].target # None
    BY DEF MonitorsInv, M!TypeOK, M!Valid
  <1>2. CASE monitors[r].type \in M!Switches
    <2>1. monitors[r].target \in Devices
      BY <1>2 DEF MonitorsInv, Watching, M!Switches, M!Values
    <2>2. QED
      BY <1>2, <2>1 DEF M!After, MonitorsInv, M!TypeOK
  <1>3. CASE monitors[r].type \notin M!Switches
    BY <1>1, <1>3 DEF M!After, M!RowType
  <1>4. QED
    BY <1>2, <1>3

\* One check of all monitors.
LEMMA checkInv ==
  ASSUME M!MonitorAssumption, MonitorsInv, M!check,
         UNCHANGED <<state, level, clock>>, due' \in BOOLEAN, stopped' = {}
  PROVE  MonitorsInv'
  <1>1. \A r \in M!Rows : monitors'[r] =
          IF r \in M!Valid THEN [monitors[r] EXCEPT !.prevState = M!After(monitors[r])]
          ELSE monitors[r]
    BY DEF M!check
  <1>2. ASSUME NEW r \in M!Rows PROVE monitors'[r] \in M!RowType
    <2>1. monitors[r] \in M!RowType
      BY DEF MonitorsInv, M!TypeOK
    <2>2. QED
      BY <1>1, <2>1, AfterType DEF M!RowType
  <1>3. monitors' \in [M!Rows -> M!RowType]
    BY <1>2 DEF M!check
  <1>4. ASSUME NEW r \in M!Valid
        PROVE  /\ monitors'[r].target = monitors[r].target
               /\ monitors'[r].type = monitors[r].type
               /\ monitors'[r].prevState = M!After(monitors[r])
    <2>1. monitors[r] \in M!RowType /\ r \in M!Rows
      BY DEF MonitorsInv, M!TypeOK, M!Valid
    <2>2. QED
      BY <1>1, <2>1 DEF M!RowType
  <1>5. M!Valid' = M!Valid
    <2>1. ASSUME NEW r \in M!Rows PROVE monitors'[r].valid = monitors[r].valid
      <3>1. monitors[r] \in M!RowType
        BY DEF MonitorsInv, M!TypeOK
      <3>2. QED
        BY <1>1, <3>1 DEF M!RowType
    <2>2. QED
      BY <2>1 DEF M!Valid
  <1>6. passed' \in SUBSET M!Rows /\ spent' \in SUBSET M!Rows
    BY DEF M!check, MonitorsInv, M!TypeOK, M!Valid
  <1>7. M!TypeOK'
    BY <1>3, <1>4, <1>5, <1>6 DEF M!check, MonitorsInv, M!TypeOK
  <1>8. Watching'
    BY <1>4, <1>5 DEF MonitorsInv, Watching
  <1>9. ASSUME NEW r \in M!Valid
        PROVE  r \in spent' <=> M!Onset(monitors[r]) \/ (r \in spent /\ M!Met(monitors[r]))
    BY DEF M!check, M!Onset
  <1>10. ASSUME NEW r \in M!Valid
         PROVE  /\ r \in spent' /\ monitors[r].type \in M!Switches
                      => M!After(monitors[r]) = monitors[r].type
                /\ r \in spent' /\ monitors[r].type \in M!Values => M!After(monitors[r]) # "OFF"
                /\ monitors[r].type \in M!Values /\ M!After(monitors[r]) = "ON" => r \in spent'
    BY <1>9 DEF M!After, M!Onset, M!Met, M!Switches, M!Values, MonitorsInv, Remembered
  <1>11. Remembered'
    BY <1>4, <1>5, <1>10 DEF Remembered
  <1>12. QED
    BY <1>7, <1>8, <1>11 DEF MonitorsInv

LEMMA monitorInv == ASSUME M!MonitorAssumption, MonitorsInv, M!monitor PROVE MonitorsInv'
  <1>1. CASE begins = 0 /\ begins' = (clock + 2) % MonitorWrap /\ passed' = {}
             /\ UNCHANGED <<monitors, spent, age, fresh>>
    <2>1. begins' \in 0 .. MonitorWrap - 1
      BY <1>1, ClockRange DEF MonitorsInv, M!TypeOK
    <2>2. QED
      BY <1>1, <2>1 DEF M!monitor, MonitorsInv, M!TypeOK, Remembered, Watching, M!Valid
  <1>2. CASE passed' = {} /\ UNCHANGED <<monitors, spent, age, fresh, begins>>
    BY <1>2 DEF M!monitor, MonitorsInv, M!TypeOK, Remembered, Watching, M!Valid
  <1>3. CASE M!check
    BY <1>3, checkInv DEF M!monitor
  <1>4. QED
    BY <1>1, <1>2, <1>3 DEF M!monitor

LEMMA MonitorsStep == ASSUME M!MonitorAssumption, MonitorsInv, [M!Next]_(M!vars) PROVE MonitorsInv'
  <1>1. CASE UNCHANGED M!vars
    BY <1>1 DEF M!vars, MonitorsInv, M!TypeOK, Remembered, Watching, M!Valid
  <1>2. QED
    BY <1>1, ChangeInv, startInv, stopInv, PassOverInv, monitorInv DEF M!Next

LEMMA MonitorsInvariance == ASSUME M!MonitorAssumption PROVE M!Spec => []MonitorsInv
  <1>1. M!Init => MonitorsInv
    BY MonitorsInit
  <1>2. MonitorsInv /\ [M!Next]_(M!vars) => MonitorsInv'
    BY MonitorsStep
  <1>3. QED
    BY <1>1, <1>2, PTL DEF M!Spec

-----------------------------------------------------------------------------

\* The rows of the table keep the types of their fields, the clock its period.
THEOREM MonitorsTypeCorrect == ASSUME M!MonitorAssumption PROVE M!Spec => []M!TypeOK
  <1>1. MonitorsInv => M!TypeOK
    BY DEF MonitorsInv
  <1>2. QED
    BY <1>1, MonitorsInvariance, PTL

\* DeviceManager.cpp:484-560: a sensor's row that remembers that its condition
\* was met has fired since a check saw it unmet; so the condition that ends and
\* comes back calls the handler again.
THEOREM AgainAfterUnmet == ASSUME M!MonitorAssumption PROVE M!Spec => []M!ReadyAgain
  <1>1. MonitorsInv => M!ReadyAgain
    BY DEF MonitorsInv, Remembered, M!ReadyAgain
  <1>2. QED
    BY <1>1, MonitorsInvariance, PTL

\* DeviceManager.cpp:502: whatever is started, stopped and read in between, a
\* monitor that has called its handler does not call it again before a check has
\* seen its condition unmet.
THEOREM ActsOnce == ASSUME M!MonitorAssumption PROVE M!Spec => M!OncePerOnset
  <1> DEFINE A == due /\ ~due' => passed' \cap spent = {}
  <1>1. MonitorsInv /\ [M!Next]_(M!vars) => [A]_(M!vars)
    <2> SUFFICES ASSUME MonitorsInv, M!Next, due, ~due' PROVE passed' \cap spent = {}
      OBVIOUS
    <2>1. M!monitor
      BY DEF M!Next, M!Change, M!startMonitor, M!stopMonitor, M!PassOver
    <2>2. CASE M!check
      BY <2>2, SpentIsSilent DEF M!check
    <2>3. QED
      BY <2>1, <2>2 DEF M!monitor
  <1>2. QED
    BY <1>1, MonitorsInvariance, PTL DEF M!Spec, M!OncePerOnset

-----------------------------------------------------------------------------
(* The two views together, as the runs check them.                           *)

\* A step of the monitors is none of the power stages.
LEMMA PowerSpec == SpecOne => Spec
  <1>1. InitOne => Init
    BY DEF InitOne
  <1>2. [Powered \/ Watched]_all => [Next]_vars
    BY DEF Powered, Watched, all
  <1>3. QED
    BY <1>1, <1>2, PTL DEF SpecOne, Spec

\* PowerManager.cpp:130-250: deep sleep is earned, never comes over a rider, and
\* ends an idle period in which the stages only went down.
THEOREM PowerIsSafe == SpecOne => DeepSleepEarned /\ NoSleepOnRide /\ DownwardOnIdle
  BY PowerSpec, PartsAssumption, SleepIsEarned, RideIsAwake, StagesGoDown, PTL

LEMMA MonitorSpec == SpecOne => M!Spec
  <1>1. InitOne => M!Init
    BY DEF InitOne
  <1>2. [Powered \/ Watched]_all => [M!Next]_(M!vars)
    BY DEF Powered, Watched, all, monitorVars, M!vars
  <1>3. QED
    BY <1>1, <1>2, PTL DEF SpecOne, M!Spec

\* DeviceManager.cpp:476-560, on the passes of the main loop: a monitor acts at
\* most once while its condition stays met, and is ready to act again once a check
\* has seen it unmet.
THEOREM MonitorsAreRight == SpecOne => MonitorsAct
  <1>1. M!Spec => []M!ReadyAgain
    BY PartsAssumption, AgainAfterUnmet
  <1>2. M!Spec => M!OncePerOnset
    BY PartsAssumption, ActsOnce
  <1>3. QED
    BY <1>1, <1>2, MonitorSpec, PTL DEF MonitorsAct
=============================================================================
