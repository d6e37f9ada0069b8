------------------------------- MODULE Sound -------------------------------
(***************************************************************************)
(* The sound of the bike: one driver shared by the speech engine, a phone  *)
(* call (Conversation) and music (Bluetooth).  Four kinds of task run      *)
(* here: the main task, which executes commands and speaks; the play task, *)
(* which takes clips from a queue; the record tasks of a conversation; and *)
(* the task of the Bluetooth stack, which calls back.  Nothing is locked.  *)
(*                                                                         *)
(* A handler is a sequence of steps, todo[t], one for each access to state *)
(* that several tasks share; a task's next action is the step at its head. *)
(***************************************************************************)
EXTENDS Speech, FiniteSets

CONSTANTS QueueLen,     \* clips the queue of the play task holds (10)
          Package,      \* the clips that were packaged for the speech engine
          Sentences,    \* bound: what is said
          Recorders,    \* bound: record tasks alive at the same time
          Early,        \* bound: a call or music may come before the first clip
          Overlapping   \* bound: two tasks may start or stop a conversation at once

ASSUME SoundAssumption == /\ QueueLen \in Nat \ {0}
                          /\ \A s \in Sentences : \A i \in DOMAIN s : Len(s[i]) = 2
                          /\ \A s \in Sentences : Len(Clips(s, Package)) \in Nat
                          /\ \A s \in Sentences : DOMAIN Clips(s, Package)
                                                   = 1..Len(Clips(s, Package))
                          /\ IsFiniteSet(Recorders)
                          /\ {"main", "play", "radio"} \cap Recorders = {}
                          /\ {Early, Overlapping} \subseteq BOOLEAN

None == "none"
Speech == "speech"      \* the configuration of the speech engine
Music == "music"        \* what the phone negotiated
Voice == "voice"        \* what a conversation asked for, and can be played
Bad == "bad"            \* a depth the driver does not know
Configs == {Speech, Music, Voice, Bad}

Modes == {"I2S", "I2S_DAC", "I2S_ADC", None}
Ports == {"port0", "port1"}
PortOf(m) == IF m = "I2S" THEN "port1" ELSE "port0"
Internal(m) == m # "I2S"

Tasks == {"main", "play", "radio"} \cup Recorders

(* The stages of the Bluetooth stack in the order start brings them up. *)
Stages == <<"controller", "enabled", "bluedroid", "bluedroidOn", "avrc", "a2dp">>
First(n) == {Stages[i] : i \in 1..n}
AllStages == First(Len(Stages))

VARIABLES
  todo,      \* the steps each task still has to do
  ports,     \* ports[p]: I2S::port0Installed and port1Installed
  icfg,      \* I2S::iConfig: the configuration, the output and the exit flag
  dac, tx,   \* audioHandles: the configuration a channel was made with, or None
  mode,      \* AudioOutput::mode of the only output
  queue,     \* messages in the queue of the play task
  prevMode,  \* playThread's prevMode
  writing,   \* the play task is inside a write to the driver
  run,       \* EcclesTTS::run; false while another part has the output
  valid,     \* EcclesTTS::valid
  active,    \* Conversation::active
  recRun,    \* AudioInput::run
  recording, \* the record tasks that exist
  socket,    \* the conversation's UDP socket is open
  bt,        \* the Bluetooth executor's fields
  up,        \* the stages of the Bluetooth stack that are up
  crashed    \* a null output was dereferenced: the program has ended

driverVars == <<ports, icfg, dac, tx, mode>>
playVars   == <<queue, prevMode, writing>>
ttsVars    == <<run, valid>>
convVars   == <<active, recRun, recording, socket>>
vars == <<todo, driverVars, playVars, ttsVars, convVars, bt, up, crashed>>

Busy(t) == todo[t] # <<>>
Op(t) == Head(todo[t]).op
At(t, op) == ~crashed /\ Busy(t) /\ Op(t) = op
Free(t) == ~crashed /\ ~Busy(t)

(* The task has done its step and goes on with these before the rest. *)
Continue(t, steps) == todo' = [todo EXCEPT ![t] = steps \o Tail(@)]
Done(t) == Continue(t, <<>>)

Simple(op) == [op |-> op]
Install(c, m) == << [op |-> "setup", c |-> c, m |-> m],
                    [op |-> "pins", m |-> m] >>
Reconfigure(c, m) == << Simple("uninstall") >> \o Install(c, m)
                       \o << [op |-> "mode", m |-> m] >>
\* Mutant of Reset: the engine is not resumed.
ResetPaused == Reconfigure(Speech, "I2S_DAC")

Reset == Reconfigure(Speech, "I2S_DAC") \o << [op |-> "run", v |-> TRUE] >>
Speak == << [op |-> "speak", always |-> TRUE] >>
Say == << [op |-> "speak", always |-> FALSE] >>
\* Mutant of StopConversation: the socket stays open.
StopConversationOpen == << Simple("recStop") >> \o Reset
                        \o << [op |-> "active", v |-> FALSE] >> \o Speak

StopConversation == << Simple("recStop") >> \o Reset
                    \o << [op |-> "active", v |-> FALSE],
                          [op |-> "socket", v |-> FALSE] >> \o Speak
Down(stages) == [op |-> "down", s |-> stages]
Profiles == {"avrc", "a2dp"}
\* Mutant of TakeDown: the controller is forgotten.
TakeDownKeepsController ==
  << Down(Profiles), Down(AllStages \ (Profiles \cup {"controller"})) >>

TakeDown == << Down(Profiles), Down(AllStages \ Profiles) >>
StopBluetooth == TakeDown \o << Simple("handBack") >> \o Say \o << Simple("off") >>

Idle == [t \in Tasks |-> <<>>]
Unset == [c |-> None, internal |-> TRUE, exit |-> FALSE]
Silence == [on |-> FALSE, started |-> FALSE, connected |-> FALSE, playing |-> FALSE]

(* valid says whether initEngine found the clips. *)
Init ==
  /\ todo = Idle
  /\ ports = [p \in Ports |-> FALSE]
  /\ icfg = Unset
  /\ dac = None /\ tx = None /\ mode = "I2S"
  /\ queue = 0 /\ prevMode = None /\ writing = FALSE
  /\ valid \in BOOLEAN /\ run = valid
  /\ active = FALSE /\ recRun = FALSE /\ recording = {} /\ socket = FALSE
  /\ bt = Silence /\ up = {}
  /\ crashed = FALSE

----------------------------------------------------------------------------
(* The driver: I2S::uninstall and I2S::install.                            *)

(* The configuration install is given is written to the shared iConfig. *)
Setup(t) ==
  /\ At(t, "setup")
  /\ LET s == Head(todo[t]) IN
     icfg' = [icfg EXCEPT !.c = s.c, !.internal = Internal(s.m)]
  /\ Done(t)
  /\ UNCHANGED <<ports, dac, tx, mode, playVars, ttsVars, convVars, bt, up,
                 crashed>>

(* initializeAudioPins: remove everything, or make the channel asked for.  *)
(* A channel that exists already cannot be made again and is left alone.   *)
Known(c) == c \in Configs \ {Bad}
MadeDac == Known(icfg.c) /\ icfg.internal /\ dac = None
MadeTx  == Known(icfg.c) /\ ~icfg.internal /\ tx = None
PinsReady == icfg.exit \/ MadeDac \/ MadeTx

\* Mutant of NewDac: a removal forgets the handle of the internal output.
NewDacKept == IF ~icfg.exit /\ MadeDac THEN icfg.c ELSE dac
NewDac == IF icfg.exit THEN None ELSE IF MadeDac THEN icfg.c ELSE dac

Pins(t) ==
  /\ At(t, "pins")
  /\ dac' = NewDac
  /\ tx'  = IF icfg.exit THEN None ELSE IF MadeTx THEN icfg.c ELSE tx
  /\ Continue(t, << [op |-> "port", m |-> Head(todo[t]).m, ok |-> PinsReady] >>)
  /\ UNCHANGED <<ports, icfg, mode, playVars, ttsVars, convVars, bt, up,
                 crashed>>

(* The port is what the pins said; an exit inverts it and is over. *)
SetPort(t) ==
  /\ At(t, "port")
  /\ LET s == Head(todo[t]) IN
     /\ ports' = [ports EXCEPT ![PortOf(s.m)] = IF icfg.exit THEN ~s.ok ELSE s.ok]
     /\ icfg' = [icfg EXCEPT !.exit = FALSE]
  /\ Done(t)
  /\ UNCHANGED <<dac, tx, mode, playVars, ttsVars, convVars, bt, up, crashed>>

(* uninstall does nothing while neither port is installed.  Only           *)
(* reConfigure gets here, with the mode of the output: the play task       *)
(* uninstalls when a message changes the mode, and no message does.  It    *)
(* installs what is configured already, with the exit flag set.            *)
Installed == \E p \in Ports : ports[p]

Uninstall(t) ==
  /\ At(t, "uninstall")
  /\ icfg' = IF Installed THEN [icfg EXCEPT !.exit = TRUE, !.internal = Internal(mode)]
                          ELSE icfg
  /\ Continue(t, IF Installed THEN << [op |-> "pins", m |-> mode] >> ELSE <<>>)
  /\ UNCHANGED <<ports, dac, tx, mode, playVars, ttsVars, convVars, bt, up,
                 crashed>>

SetMode(t) ==
  /\ At(t, "mode")
  /\ mode' = Head(todo[t]).m
  /\ Done(t)
  /\ UNCHANGED <<ports, icfg, dac, tx, playVars, ttsVars, convVars, bt, up,
                 crashed>>

DriverStep(t) == Setup(t) \/ Pins(t) \/ SetPort(t) \/ Uninstall(t) \/ SetMode(t)

----------------------------------------------------------------------------
(* The speech engine and the play task.                                    *)

(* speak looks at run and valid once, then queues the clips one by one.    *)
(* What Bluetooth says is said if it is audible, which commands switch at  *)
(* any time: it may be said or not.                                        *)
SpeakWords(t) ==
  /\ At(t, "speak")
  /\ \E s \in Sentences : \E said \in BOOLEAN :
       /\ said \/ ~Head(todo[t]).always
       /\ Continue(t, IF run /\ valid /\ said
                      THEN [i \in DOMAIN Clips(s, Package) |-> Simple("clip")]
                      ELSE <<>>)
  /\ UNCHANGED <<driverVars, playVars, ttsVars, convVars, bt, up, crashed>>

(* AudioOutput::play waits for room in the queue; mode is stored after it. *)
\* Mutant of Rest: strtok is given the sentence again, and finds its first word.
RestAgain == << Simple("clip") >>
Rest == <<>>

\* Mutant of Room: the wait of the queue is not waited.
RoomAlways == TRUE
Room == queue < QueueLen

QueueClip(t) ==
  /\ At(t, "clip")
  /\ Room
  /\ queue' = queue + 1
  /\ Continue(t, << [op |-> "mode", m |-> "I2S_DAC"] >> \o Rest)
  /\ UNCHANGED <<driverVars, prevMode, writing, ttsVars, convVars, bt, up,
                 crashed>>

SetRun(t) ==
  /\ At(t, "run")
  /\ run' = Head(todo[t]).v
  /\ Done(t)
  /\ UNCHANGED <<driverVars, playVars, valid, convVars, bt, up, crashed>>

(* playThread takes a message.  Every clip carries I2S_DAC; only the first *)
(* one, with no mode before it, installs the driver.  Without the clips'   *)
(* file initEngine shut the task down.                                     *)
TakeClip ==
  /\ valid /\ Free("play") /\ queue > 0
  /\ queue' = queue - 1
  /\ prevMode' = "I2S_DAC"
  /\ todo' = [todo EXCEPT !["play"] =
                (IF prevMode = "I2S_DAC" THEN <<>> ELSE Install(Speech, "I2S_DAC"))
                \o << Simple("write") >>]
  /\ UNCHANGED <<driverVars, writing, ttsVars, convVars, bt, up, crashed>>

(* playBuffer writes if a port is installed and the handle is not null. *)
WriteClip ==
  /\ At("play", "write")
  /\ writing' = (Installed /\ dac # None)
  /\ Continue("play", << Simple("written") >>)
  /\ UNCHANGED <<driverVars, queue, prevMode, ttsVars, convVars, bt, up, crashed>>

ClipWritten ==
  /\ At("play", "written")
  /\ writing' = FALSE
  /\ Done("play")
  /\ UNCHANGED <<driverVars, queue, prevMode, ttsVars, convVars, bt, up, crashed>>

(* The play task has not got the driver for its first clip yet. *)
NotYetPlayed ==
  valid /\ (prevMode = None
            \/ \E i \in DOMAIN todo["play"] :
                  todo["play"][i].op \notin {"write", "written"})
MayTakeOutput == NotYetPlayed => Early

SpeechStep(t) == SpeakWords(t) \/ QueueClip(t) \/ SetRun(t)
PlayTask == TakeClip \/ WriteClip \/ ClipWritten \/ DriverStep("play")

----------------------------------------------------------------------------
(* The record tasks of a conversation.                                     *)

(* Two tasks are inside start or stop of the conversation at once. *)
InConversation(t) ==
  \E i \in DOMAIN todo[t] : todo[t][i].op \in {"active", "socket"}
Overlaps(t) == \E u \in Tasks \ {t} : InConversation(u)
MayBegin(t) == Overlaps(t) => Overlapping

(* A turn of recordThread: it ends when run is off or onData says so.      *)
(* onData ends it when no conversation is active, and stops the            *)
(* conversation when the driver refuses what arrived: a write gives up     *)
(* after 100 ms, so a driver with a full buffer refuses too.               *)
RecordEnds(r) ==
  /\ r \in recording /\ Free(r)
  /\ ~recRun \/ ~active
  /\ recording' = recording \ {r}
  /\ UNCHANGED <<todo, driverVars, playVars, ttsVars, active, recRun, socket, bt,
                 up, crashed>>

RecordRefused(r) ==
  /\ r \in recording /\ Free(r)
  /\ recRun /\ active /\ socket
  /\ dac # None \/ tx # None
  /\ MayBegin(r)
  /\ todo' = [todo EXCEPT ![r] = StopConversation \o << Simple("ended") >>]
  /\ UNCHANGED <<driverVars, playVars, ttsVars, convVars, bt, up, crashed>>

RecordEnded(r) ==
  /\ At(r, "ended")
  /\ Done(r)
  /\ recording' = recording \ {r}
  /\ UNCHANGED <<driverVars, playVars, ttsVars, active, recRun, socket, bt, up,
                 crashed>>

(* The steps of Conversation::start and ::stop. *)
StopRecorder(t) ==
  /\ At(t, "recStop")
  /\ recRun' = FALSE
  /\ Done(t)
  /\ UNCHANGED <<driverVars, playVars, ttsVars, active, recording, socket, bt, up,
                 crashed>>

StartRecorder(t) ==
  /\ At(t, "record")
  /\ recRun' = TRUE
  /\ \E r \in Recorders \ recording : recording' = recording \cup {r}
  /\ Done(t)
  /\ UNCHANGED <<driverVars, playVars, ttsVars, active, socket, bt, up, crashed>>

SetActive(t) ==
  /\ At(t, "active")
  /\ active' = Head(todo[t]).v
  /\ Done(t)
  /\ UNCHANGED <<driverVars, playVars, ttsVars, recRun, recording, socket, bt, up,
                 crashed>>

SetSocket(t) ==
  /\ At(t, "socket")
  /\ socket' = Head(todo[t]).v
  /\ Done(t)
  /\ UNCHANGED <<driverVars, playVars, ttsVars, active, recRun, recording, bt, up,
                 crashed>>

(* start takes the output: getOutput gives null unless the engine pauses. *)
TakeOutput(t) ==
  /\ At(t, "takeOutput")
  /\ crashed' = (crashed \/ run)
  /\ Done(t)
  /\ UNCHANGED <<driverVars, playVars, ttsVars, convVars, bt, up>>

ConversationStep(t) ==
  \/ StopRecorder(t) \/ StartRecorder(t) \/ SetActive(t) \/ SetSocket(t)
  \/ TakeOutput(t)

(* Conversation::start switches Bluetooth off in either mode, and takes    *)
(* the output and records only in real mode.                               *)
\* Mutant of Converse: the engine is not paused.
ConverseUnpaused(c) ==
  << Simple("takeOutput") >> \o Reconfigure(c, "I2S_ADC")
  \o << Simple("record"), [op |-> "active", v |-> TRUE],
        [op |-> "socket", v |-> TRUE] >>

Converse(c) ==
  << [op |-> "run", v |-> FALSE], Simple("takeOutput") >>
  \o Reconfigure(c, "I2S_ADC")
  \o << Simple("record"), [op |-> "active", v |-> TRUE],
        [op |-> "socket", v |-> TRUE] >>

\* Mutant of Before: music goes on.
BeforeNothing == <<>>
Before == IF bt.on THEN StopBluetooth ELSE <<>>

StartConversation ==
  /\ Free("main") /\ ~active
  /\ Recorders \ recording # {} /\ MayBegin("main")
  /\ \E steps \in {<<>>, Converse(Voice), Converse(Bad)} :
       /\ steps # <<>> => MayTakeOutput
       /\ todo' = [todo EXCEPT !["main"] =
                     Before \o steps]
       /\ UNCHANGED <<driverVars, playVars, ttsVars, convVars, bt, up, crashed>>

EndConversation ==
  /\ Free("main") /\ active /\ MayBegin("main")
  /\ todo' = [todo EXCEPT !["main"] = StopConversation]
  /\ UNCHANGED <<driverVars, playVars, ttsVars, convVars, bt, up, crashed>>

----------------------------------------------------------------------------
(* Bluetooth: start and stop on the main task.                             *)

(* The memory of the low energy part is released the first time; if that   *)
(* fails, start has done nothing.                                          *)
StartBluetooth ==
  /\ Free("main")
  /\ ~bt.on /\ ~active
  /\ todo' = [todo EXCEPT !["main"] = << Simple("bring") >>]
  /\ UNCHANGED <<driverVars, playVars, ttsVars, convVars, bt, up, crashed>>

(* Stage after stage comes up.  When one fails, or a callback cannot be    *)
(* registered, the stages that came up are taken down in reverse.          *)
Brought ==
  /\ At("main", "bring")
  /\ \E n \in 0..Len(Stages) :
       /\ up' = First(n)
       /\ Continue("main", IF n = Len(Stages) THEN << Simple("on") >> \o Say
                           ELSE TakeDown \o << Simple("notOn") >> \o Say)
  /\ UNCHANGED <<driverVars, playVars, ttsVars, convVars, bt, crashed>>

(* Disabling bluedroid waits for its task to be out of the callbacks. *)
TakenDown ==
  /\ At("main", "down")
  /\ LET s == Head(todo["main"]).s IN
     /\ s # Profiles => ~Busy("radio")
     /\ up' = up \ s
  /\ Done("main")
  /\ UNCHANGED <<driverVars, playVars, ttsVars, convVars, bt, crashed>>

TurnedOn ==
  /\ At("main", "on") \/ At("main", "notOn")
  /\ bt' = [bt EXCEPT !.on = At("main", "on")]
  /\ Done("main")
  /\ UNCHANGED <<driverVars, playVars, ttsVars, convVars, up, crashed>>

StopMusic ==
  /\ Free("main") /\ bt.on
  /\ todo' = [todo EXCEPT !["main"] = StopBluetooth]
  /\ UNCHANGED <<driverVars, playVars, ttsVars, convVars, bt, up, crashed>>

(* stop gives the output back if music had taken it. *)
HandBack ==
  /\ At("main", "handBack")
  /\ Continue("main", IF bt.started THEN Reset \o << Simple("notStarted") >> ELSE <<>>)
  /\ UNCHANGED <<driverVars, playVars, ttsVars, convVars, bt, up, crashed>>

NotStarted ==
  /\ At("main", "notStarted")
  /\ bt' = [bt EXCEPT !.started = FALSE]
  /\ Done("main")
  /\ UNCHANGED <<driverVars, playVars, ttsVars, convVars, up, crashed>>

TurnedOff ==
  /\ At("main", "off")
  /\ bt' = [bt EXCEPT !.on = FALSE, !.connected = FALSE, !.playing = FALSE]
  /\ Done("main")
  /\ UNCHANGED <<driverVars, playVars, ttsVars, convVars, up, crashed>>

BluetoothStep ==
  \/ Brought \/ TakenDown \/ TurnedOn \/ HandBack \/ NotStarted
  \/ TurnedOff

----------------------------------------------------------------------------
(* The task of the Bluetooth stack: what the phone does, while the sink is *)
(* up.                                                                     *)

Listening == "a2dp" \in up /\ Free("radio")

LinkUp ==
  /\ Listening /\ ~bt.connected
  /\ bt' = [bt EXCEPT !.connected = TRUE]
  /\ todo' = [todo EXCEPT !["radio"] = Say]
  /\ UNCHANGED <<driverVars, playVars, ttsVars, convVars, up, crashed>>

LinkDown ==
  /\ Listening /\ bt.connected
  /\ bt' = [bt EXCEPT !.connected = FALSE, !.playing = FALSE]
  /\ UNCHANGED <<todo, driverVars, playVars, ttsVars, convVars, up, crashed>>

(* The first time music starts, the callback takes the output; if it gets  *)
(* none it has paused the engine all the same.                             *)
MusicStarts ==
  /\ Listening /\ bt.connected /\ ~bt.playing
  /\ bt.started \/ MayTakeOutput
  /\ bt' = [bt EXCEPT !.playing = TRUE]
  /\ todo' = [todo EXCEPT !["radio"] =
                IF bt.started THEN <<>>
                ELSE << [op |-> "run", v |-> FALSE], Simple("lend") >>]
  /\ UNCHANGED <<driverVars, playVars, ttsVars, convVars, up, crashed>>

Lend ==
  /\ At("radio", "lend")
  /\ Continue("radio", IF run THEN <<>>
                       ELSE Reconfigure(Music, "I2S_DAC") \o << Simple("started") >>)
  /\ UNCHANGED <<driverVars, playVars, ttsVars, convVars, bt, up, crashed>>

Started ==
  /\ At("radio", "started")
  /\ bt' = [bt EXCEPT !.started = TRUE]
  /\ Done("radio")
  /\ UNCHANGED <<driverVars, playVars, ttsVars, convVars, up, crashed>>

MusicStops ==
  /\ Listening /\ bt.playing
  /\ bt' = [bt EXCEPT !.playing = FALSE]
  /\ UNCHANGED <<todo, driverVars, playVars, ttsVars, convVars, up, crashed>>

Phone == LinkUp \/ LinkDown \/ MusicStarts \/ MusicStops

----------------------------------------------------------------------------
(* A device speaks, on the main task. *)
Announce ==
  /\ Free("main")
  /\ todo' = [todo EXCEPT !["main"] = Speak]
  /\ UNCHANGED <<driverVars, playVars, ttsVars, convVars, bt, up, crashed>>

Shared(t) == DriverStep(t) \/ SpeechStep(t) \/ ConversationStep(t)

Commands == StartConversation \/ EndConversation \/ StartBluetooth \/ StopMusic
            \/ Announce

Step(t) ==
  \/ Shared(t)
  \/ t = "main" /\ BluetoothStep
  \/ t = "radio" /\ (Lend \/ Started)
  \/ t \in Recorders /\ RecordEnded(t)

Recorder(r) == RecordEnds(r) \/ RecordRefused(r)

Next ==
  \/ Commands
  \/ \E t \in Tasks \ {"play"} : Step(t)
  \/ \E r \in Recorders : Recorder(r)
  \/ Phone
  \/ PlayTask

Spec == Init /\ [][Next]_vars

(* The scheduler runs every task that has something to do: a handler goes  *)
(* on to its end, and the play task takes its messages.                    *)
FairSpec ==
  /\ Spec
  /\ WF_vars(PlayTask)
  /\ \A t \in Tasks \ {"play"} : WF_vars(Step(t))

----------------------------------------------------------------------------
(* Properties.                                                             *)

TypeOK ==
  /\ DOMAIN todo = Tasks
  /\ ports \in [Ports -> BOOLEAN]
  /\ icfg \in [c : Configs \cup {None}, internal : BOOLEAN, exit : BOOLEAN]
  /\ {dac, tx} \subseteq (Configs \ {Bad}) \cup {None}
  /\ mode \in Modes /\ prevMode \in Modes
  /\ queue \in 0..QueueLen
  /\ {writing, run, valid, active, recRun, socket, crashed} \subseteq BOOLEAN
  /\ recording \subseteq Recorders
  /\ up \subseteq AllStages

Quiet == \A t \in Tasks : ~Busy(t)

(* A conversation and Bluetooth never share the output: while one is       *)
(* active the stack of the other is down to its last stage and music has   *)
(* given the output back.                                                  *)
CallExcludesMusic == active => up = {} /\ ~bt.on /\ ~bt.started

(* Between two commands the stack is up to its last stage or down to its   *)
(* last stage, whatever failed on the way, and what the callbacks noted of *)
(* the phone does not outlive the stack.                                   *)
StackIsWhole ==
  ~Busy("main") =>
    IF bt.on THEN up = AllStages
    ELSE up = {} /\ ~bt.connected /\ ~bt.playing /\ ~bt.started

(* The engine is paused exactly while a conversation or music has the      *)
(* output (while Overlapping keeps two stops of a conversation apart).     *)
OutputHasOneOwner ==
  Quiet =>
    /\ active \/ bt.started => ~run
    /\ run \/ active \/ bt.started \/ ~valid

(* Whoever takes the output gets one: it is never null. *)
OutputIsThere == ~crashed

(* After a conversation or music has given the output back, speech is      *)
(* heard: the driver is there, and set up for the clips.                   *)
SpeechIsHeard ==
  Quiet /\ valid /\ run /\ prevMode # None
    => ports["port0"] /\ dac = Speech

(* The socket of a conversation is open while it is active and no longer. *)
SocketFollowsCall == Quiet => (socket <=> active)

(* A call and music exclude each other, the Bluetooth stack is up or down  *)
(* as a whole, and the socket of a call is there exactly while it lasts    *)
(* (Bluetooth.cpp:199-349, Conversation.cpp:558-633).                      *)
CallsAndMusic == TypeOK /\ CallExcludesMusic /\ StackIsWhole /\ SocketFollowsCall

(* EcclesTTS.cpp:126-175 with a complete package: an engine that is valid  *)
(* says every number it is given.                                          *)
NumbersAreSaid == valid => EveryNumberIsSaid

(* The one output has one owner, who has it when it is needed, and goes    *)
(* back to the speech engine, which is then heard and says every number    *)
(* (Audio.cpp:218-256, EcclesTTS.cpp:133-256).                             *)
OutputIsHeard == OutputHasOneOwner /\ OutputIsThere /\ SpeechIsHeard /\ NumbersAreSaid

(* Commands end: speaking waits for the play task, and stopping the stack  *)
(* waits for a callback that may itself wait for the play task.  Only a    *)
(* phone that comes and goes for ever, and is announced every time, can    *)
(* keep the main task from its place in the queue.                         *)
CommandsEnd ==
  \/ []<>~Busy("main")
  \/ []<>Busy("radio") /\ []<>~Busy("radio")

----------------------------------------------------------------------------
(* What the code does not keep: each of these is refuted by an instance    *)
(* with the bound Early or Overlapping lifted, or by Sound itself.         *)

(* reset: "back to its default settings" (EcclesTTS.h:84).  A conversation *)
(* or music that takes the output before the first clip was played leaves  *)
(* the play task to install the driver again, which fails: from then on no *)
(* port counts as installed, nothing is removed, and nothing is ever said. *)
SpeechSurvives ==
  Quiet /\ valid /\ run /\ prevMode # None => ports["port0"]

(* A conversation is recorded while it is active (Executors.h:148).  The   *)
(* record task may look at active before start has set it, and ends.       *)
CallIsRecorded == Quiet /\ active => recording # {}

(* One conversation has one record task.  A stop and a start within one    *)
(* turn of the record task leave the first one running.                    *)
OneRecorder == Cardinality(recording) <= 1

(* getOutput is not null for one who paused the engine first               *)
(* (EcclesTTS.h:81).  Two stops of a conversation, of the main task and of *)
(* the record task, may overlap; the second resumes the engine between the *)
(* next start's pause and its getOutput, and the program crashes.          *)
NeverNull == ~crashed

(* The channel is not deleted while the play task writes to it. *)
WriteHasChannel == writing => dac # None

(* A clip is played with the configuration of the clips, also one queued   *)
(* before a conversation started.                                          *)
ClipSounds == writing => dac = Speech
============================================================================
