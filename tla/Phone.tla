------------------------------- MODULE Phone -------------------------------
(***************************************************************************)
(* The Android application: the UI thread, the engine thread it starts and *)
(* joins, the engine's receiver thread, and one reader thread per activity *)
(* that asks the engine for messages.  The engine is a singleton: its      *)
(* queues, its running flag, the pending results and the id counter        *)
(* outlive an activity.  The bike and the link to it are external.         *)
(***************************************************************************)
EXTENDS Phrases, FiniteSets

CONSTANTS Ids,        \* command ids go from 1 to Ids (255)
          MaxTexts,   \* bound: texts the user sends
          Activities, \* bound: activities created, one after the other
          Cap,        \* bound: frames on their way to the phone
          MayDrop,    \* the link to the bike may be lost
          Races       \* bound: what an activity started may lag behind it: its
                      \* engine, its discovery's post, its reader

Asks == "ask"         \* sent, and its result awaited
Watches == "watch"    \* a monitor: sent, never awaited
Cancels == "cancel"   \* conversation.cancel: sent, never awaited
Refusal == "refusal"  \* a sentence the parser refuses
Texts == {Asks, Watches, Cancels, Refusal}   \* what a text amounts to

ASSUME PhoneAssumption ==
  /\ {Ids, Activities, Cap} \subseteq Nat \ {0} /\ MaxTexts \in Nat
  /\ {MayDrop, Races} \subseteq BOOLEAN

VARIABLES
  ui,        \* what the UI thread is doing
  activity,  \* the activities created so far; the last one is on the screen
  alive,     \* whether that activity has not been destroyed
  discovery, \* UdpDiscovery of the activity
  joinable,  \* gEngineThread refers to a thread that was not joined
  running,   \* Engine::running_
  engine,    \* where the engine thread is
  text,      \* the text it is handling
  command,   \* the command built from it: its number and its id
  inbound, outbound,  \* the two message queues
  counter,   \* nextCommandId's counter
  pending,   \* gPending: the slot of each id that has one
  fd,        \* socketFd_: the connection it belongs to, 0 when there is none
  connected, \* connected_
  keep,      \* receiverKeepRunning
  receiver,  \* where the receiver thread is
  listens,   \* the connection the receiver reads
  reader,    \* the reader of each activity
  polling,   \* MessageThread::running of each reader
  shown,     \* the last status that came out of outbound
  link,      \* the connections that are up at the bike
  opened,    \* connections opened so far
  asked,     \* the commands the bike will still answer
  frames,    \* results on their way to the phone
  sent,      \* texts sent so far
  mixed      \* history: a command took the answer to another

uiVars     == <<ui, activity, alive, discovery, joinable>>
engineVars == <<engine, text, command>>
pendVars   == <<counter, pending>>
sockVars   == <<fd, connected>>
recvVars   == <<keep, receiver, listens>>
readVars   == <<reader, polling, shown>>
bikeVars   == <<link, opened, asked, frames>>
vars == <<uiVars, running, engineVars, inbound, outbound, pendVars, sockVars,
          recvVars, readVars, bikeVars, sent, mixed>>

Nothing == [no |-> 0, id |-> 0]
Put(messages) == outbound' = outbound \o messages

TypeOK ==
  /\ ui \in {"idle", "create", "init", "launch", "stop", "join"}
  /\ activity \in 0..Activities /\ discovery \in {"off", "listening", "posted"}
  /\ {alive, joinable, running, connected, keep, mixed} \subseteq BOOLEAN
  /\ engine \in {"none", "born", "connect", "check", "pop", "build", "slot",
                 "send", "await", "close", "end", "done"}
  /\ text \in Texts \cup {None}
  /\ command \in [no : 0..MaxTexts, id : 0..Ids]
  /\ inbound \in Seq(Texts) /\ outbound \in Seq({"connected", "disconnected", "report"})
  /\ counter \in 0..Ids /\ DOMAIN pending \subseteq 1..Ids
  /\ {fd, listens, opened} \subseteq Nat /\ link \subseteq 1..opened
  /\ receiver \in {"off", "on", "leaving", "ended"}
  /\ DOMAIN reader = 1..Activities /\ polling \in [1..Activities -> BOOLEAN]
  /\ shown \in {"none", "connected", "disconnected"}
  /\ sent \in 0..MaxTexts /\ Len(frames) <= Cap

Init ==
  /\ ui = "idle" /\ activity = 0 /\ alive = FALSE /\ discovery = "off" /\ joinable = FALSE
  /\ running = TRUE
  /\ engine = "none" /\ text = None /\ command = Nothing
  /\ inbound = <<>> /\ outbound = <<>>
  /\ counter = 0 /\ pending = <<>>
  /\ fd = 0 /\ connected = FALSE
  /\ keep = FALSE /\ receiver = "off" /\ listens = 0
  /\ reader = [a \in 1..Activities |-> "off"] /\ polling = [a \in 1..Activities |-> TRUE]
  /\ shown = "none"
  /\ link = {} /\ opened = 0 /\ asked = {} /\ frames = <<>>
  /\ sent = 0 /\ mixed = FALSE

----------------------------------------------------------------------------
(* The UI thread.  An activity looks for the bike; the discovery posts the *)
(* address it found to the UI thread, where the post may run after the     *)
(* activity has been destroyed.                                            *)
CreateActivity ==
  /\ ui = "idle" /\ ~alive /\ activity < Activities
  /\ activity' = activity + 1 /\ alive' = TRUE /\ discovery' = "listening"
  /\ UNCHANGED <<ui, joinable, running, engineVars, inbound, outbound, pendVars,
                 sockVars, recvVars, readVars, bikeVars, sent, mixed>>

BikeFound ==
  /\ discovery = "listening"
  /\ discovery' = "posted"
  /\ UNCHANGED <<ui, activity, alive, joinable, running, engineVars, inbound, outbound,
                 pendVars, sockVars, recvVars, readVars, bikeVars, sent, mixed>>

OnIpDiscovered ==
  /\ ui = "idle" /\ discovery = "posted"
  /\ discovery' = "off" /\ ui' = "init"
  /\ UNCHANGED <<activity, alive, joinable, running, engineVars, inbound, outbound,
                 pendVars, sockVars, recvVars, readVars, bikeVars, sent, mixed>>

(* initEngine joins the thread of the previous session before a new one.   *)
Calm == \A a \in 1..Activities : reader[a] # "asking"
Launch ==
  /\ ui = "init" /\ (joinable => engine = "done") /\ (Calm \/ Races)
  /\ engine' = "born" /\ joinable' = TRUE /\ ui' = "launch"
  /\ UNCHANGED <<activity, alive, discovery, running, text, command, inbound, outbound,
                 pendVars, sockVars, recvVars, readVars, bikeVars, sent, mixed>>

StartReader ==
  /\ ui = "launch"
  /\ reader' = [reader EXCEPT ![activity] = "asking"]
  /\ ui' = "idle"
  /\ UNCHANGED <<activity, alive, discovery, joinable, running, engineVars, inbound, outbound,
                 pendVars, sockVars, recvVars, polling, shown, bikeVars, sent, mixed>>

(* onDestroy: cancel, stopPolling, stopEngine, the last of which joins.    *)
Settled == engine # "born" /\ discovery # "posted"
DestroyActivity ==
  /\ ui = "idle" /\ alive /\ (Settled \/ Races)
  /\ alive' = FALSE
  /\ discovery' = (IF discovery = "posted" THEN "posted" ELSE "off")
  /\ polling' = [polling EXCEPT ![activity] = FALSE]
  /\ running' = FALSE
  /\ ui' = (IF joinable THEN "join" ELSE "idle")
  /\ UNCHANGED <<activity, joinable, engineVars, inbound, outbound, pendVars,
                 sockVars, recvVars, reader, shown, bikeVars, sent, mixed>>

Join ==
  /\ ui = "join" /\ engine = "done"
  /\ joinable' = FALSE /\ ui' = "idle"
  /\ UNCHANGED <<activity, alive, discovery, running, engineVars, inbound, outbound, pendVars,
                 sockVars, recvVars, readVars, bikeVars, sent, mixed>>

SendText ==
  /\ ui = "idle" /\ alive /\ sent < MaxTexts
  /\ \E t \in Texts : inbound' = Append(inbound, t)
  /\ sent' = sent + 1
  /\ UNCHANGED <<uiVars, running, engineVars, outbound, pendVars, sockVars,
                 recvVars, readVars, bikeVars, mixed>>

UiThread == \/ CreateActivity \/ BikeFound \/ OnIpDiscovered \/ Launch \/ StartReader
            \/ DestroyActivity \/ Join \/ SendText

----------------------------------------------------------------------------
(* The engine thread. *)
EngineStep(from, to) == engine = from /\ engine' = to

RunBegins ==
  /\ EngineStep("born", "connect")
  /\ running' = TRUE
  /\ UNCHANGED <<uiVars, text, command, inbound, outbound, pendVars, sockVars, recvVars,
                 readVars, bikeVars, sent, mixed>>

(* connect gives socketFd_ a new socket; it does not close an old one.     *)
Connected ==
  /\ opened' = opened + 1 /\ link' = link \cup {opened + 1}
  /\ fd' = opened + 1 /\ connected' = TRUE

RunConnects ==
  /\ EngineStep("connect", "check") /\ Connected
  /\ Put(<<"connected">>)
  /\ keep' = TRUE /\ receiver' = "on" /\ listens' = opened + 1
  /\ UNCHANGED <<uiVars, running, text, command, inbound, pendVars,
                 readVars, asked, frames, sent, mixed>>

RunFails ==
  /\ EngineStep("connect", "done")
  /\ Put(<<"report", "disconnected">>) /\ running' = FALSE
  /\ UNCHANGED <<uiVars, text, command, inbound, pendVars, sockVars, recvVars,
                 readVars, bikeVars, sent, mixed>>

Check ==
  /\ engine = "check" /\ engine' = (IF running THEN "pop" ELSE "close")
  /\ UNCHANGED <<uiVars, running, text, command, inbound, outbound, pendVars, sockVars,
                 recvVars, readVars, bikeVars, sent, mixed>>

(* pop gives up only when the queue is empty. *)
PopText ==
  /\ EngineStep("pop", "build") /\ inbound # <<>>
  /\ text' = Head(inbound) /\ inbound' = Tail(inbound)
  /\ UNCHANGED <<uiVars, running, command, outbound, pendVars, sockVars,
                 recvVars, readVars, bikeVars, sent, mixed>>
GiveUp ==
  /\ EngineStep("pop", "close") /\ inbound = <<>> /\ ~running
  /\ UNCHANGED <<uiVars, running, text, command, inbound, outbound, pendVars, sockVars,
                 recvVars, readVars, bikeVars, sent, mixed>>

NextIdFromZero == counter % Ids
NextId == (counter % Ids) + 1

(* handleText.  A sentence that is refused late has used up an id.         *)
Handled == text' = None /\ command' = [command EXCEPT !.id = 0]
Build ==
  /\ engine = "build"
  /\ counter' = NextId
  /\ IF text = Refusal
     THEN engine' = "check" /\ Put(<<"report">>) /\ text' = None /\ UNCHANGED command
     ELSE /\ engine' = "slot" /\ command' = [no |-> command.no + 1, id |-> NextId]
          /\ UNCHANGED <<outbound, text>>
  /\ UNCHANGED <<uiVars, running, inbound, pending, sockVars, recvVars,
                 readVars, bikeVars, sent, mixed>>

Slot == [ready |-> FALSE, by |-> 0, kind |-> text]
WithoutNone(id) == pending
Without(id) == [i \in DOMAIN pending \ {id} |-> pending[i]]

(* CommandApi::send first makes the slot, then sends.                      *)
MakeSlot ==
  /\ EngineStep("slot", "send")
  /\ pending' = [i \in DOMAIN pending \cup {command.id} |->
                   IF i = command.id THEN Slot ELSE pending[i]]
  /\ UNCHANGED <<uiVars, running, text, command, inbound, outbound, counter, sockVars,
                 recvVars, readVars, bikeVars, sent, mixed>>

(* A frame sent on a link that is down may still seem to go out.           *)
Sent ==
  IF text = Asks
  THEN engine' = "await" /\ UNCHANGED <<text, command, outbound>>
  ELSE engine' = "check" /\ Put(<<"report">>) /\ Handled

SendGoesOut ==
  /\ engine = "send" /\ connected
  /\ asked' = IF fd \in link THEN asked \cup {[no |-> command.no, id |-> command.id,
                                                kind |-> text]}
              ELSE asked
  /\ Sent
  /\ UNCHANGED <<uiVars, running, inbound, pendVars, sockVars, recvVars,
                 readVars, link, opened, frames, sent, mixed>>

MayReplaceDead == fd \notin link
MayReplace == ~connected
Reconnect ==
  /\ engine = "send" /\ MayReplace /\ Connected
  /\ UNCHANGED <<uiVars, running, engineVars, inbound, outbound, pendVars, recvVars,
                 readVars, asked, frames, sent, mixed>>

SendFails ==
  /\ engine = "send" /\ (~connected \/ fd \notin link)
  /\ pending' = Without(command.id)
  /\ engine' = "check" /\ Put(<<"report">>) /\ Handled
  /\ UNCHANGED <<uiVars, running, inbound, counter, sockVars, recvVars,
                 readVars, bikeVars, sent, mixed>>

(* awaitResult: the slot is ready, or 200 ms are over.                     *)
ExpiredNever == FALSE
Expired == ~pending[command.id].ready
Collect ==
  /\ EngineStep("await", "check") /\ pending[command.id].ready
  /\ mixed' = (mixed \/ pending[command.id].by # command.no)
  /\ pending' = Without(command.id) /\ Put(<<"report">>) /\ Handled
  /\ UNCHANGED <<uiVars, running, inbound, counter, sockVars, recvVars,
                 readVars, bikeVars, sent>>
Timeout ==
  /\ EngineStep("await", "check") /\ Expired
  /\ pending' = Without(command.id) /\ Put(<<"report">>) /\ Handled
  /\ UNCHANGED <<uiVars, running, inbound, counter, sockVars, recvVars,
                 readVars, bikeVars, sent, mixed>>

Dismiss ==
  /\ EngineStep("close", "end") /\ keep' = FALSE
  /\ UNCHANGED <<uiVars, running, text, command, inbound, outbound, pendVars, sockVars,
                 receiver, listens, readVars, bikeVars, sent, mixed>>

JoinedAlways == TRUE
Joined == receiver = "ended"
Disconnect ==
  /\ EngineStep("end", "done") /\ Joined
  /\ fd' = 0 /\ connected' = FALSE /\ link' = link \ {fd}
  /\ Put(<<"disconnected">>) /\ frames' = <<>>
  /\ UNCHANGED <<uiVars, running, text, command, inbound, pendVars, recvVars,
                 readVars, opened, asked, sent, mixed>>

EngineThread ==
  \/ RunBegins \/ RunConnects \/ RunFails \/ Check \/ PopText \/ GiveUp \/ Build
  \/ MakeSlot \/ SendGoesOut \/ Reconnect \/ SendFails \/ Collect \/ Timeout
  \/ Dismiss \/ Disconnect

----------------------------------------------------------------------------
(* The receiver thread: runReceiveLoop.  It uses socketFd_, not a copy.    *)
AnswersAny(i, f) == TRUE
Answers(i, f) == i = f.id
Receive ==
  /\ receiver = "on" /\ keep /\ fd \in link /\ frames # <<>>
  /\ LET f == Head(frames) IN
     pending' = [i \in DOMAIN pending |->
                   IF Answers(i, f) THEN [pending[i] EXCEPT !.ready = TRUE, !.by = f.no]
                   ELSE pending[i]]
  /\ frames' = Tail(frames)
  /\ UNCHANGED <<uiVars, running, engineVars, inbound, outbound, counter, sockVars,
                 recvVars, readVars, link, opened, asked, sent, mixed>>

(* The loop ends: told so, or the read failed, or a close frame came.      *)
ToldNever == FALSE
Told == ~keep
ReceiverLeaves ==
  /\ receiver = "on" /\ (Told \/ fd \notin link)
  /\ receiver' = "leaving"
  /\ UNCHANGED <<uiVars, running, engineVars, inbound, outbound, pendVars, sockVars,
                 keep, listens, readVars, bikeVars, sent, mixed>>
ReceiverEnds ==
  /\ receiver = "leaving"
  /\ receiver' = "ended" /\ connected' = FALSE
  /\ UNCHANGED <<uiVars, running, engineVars, inbound, outbound, pendVars, fd,
                 keep, listens, readVars, bikeVars, sent, mixed>>
ReceiverThread == Receive \/ ReceiverLeaves \/ ReceiverEnds

----------------------------------------------------------------------------
(* A reader asks for messages until there are none and the engine stopped. *)
NextReader(a, m) ==
  /\ shown' = IF m = "report" THEN shown ELSE m
  /\ reader' = [reader EXCEPT ![a] = IF polling[a] THEN "asking" ELSE "gone"]

Read(a) ==
  /\ reader[a] = "asking" /\ outbound # <<>>
  /\ NextReader(a, Head(outbound)) /\ outbound' = Tail(outbound)
  /\ UNCHANGED <<uiVars, running, engineVars, inbound, pendVars, sockVars,
                 recvVars, polling, bikeVars, sent, mixed>>
Stopped == ~running
ReaderGivesUp(a) ==
  /\ reader[a] = "asking" /\ outbound = <<>> /\ Stopped
  /\ engine = "born" => Races
  /\ reader' = [reader EXCEPT ![a] = "gone"]
  /\ UNCHANGED <<uiVars, running, engineVars, inbound, outbound, pendVars, sockVars,
                 recvVars, polling, shown, bikeVars, sent, mixed>>
Reader(a) == Read(a) \/ ReaderGivesUp(a)

----------------------------------------------------------------------------
(* The bike answers a command once, and a monitor any number of times, on  *)
(* whatever connection is up; the link may go, and what was on it with it. *)
Answer ==
  /\ link # {} /\ Len(frames) < Cap
  /\ \E a \in asked :
       /\ frames' = Append(frames, [no |-> a.no, id |-> a.id])
       /\ asked' = IF a.kind = Watches THEN asked ELSE asked \ {a}
  /\ UNCHANGED <<uiVars, running, engineVars, inbound, outbound, pendVars, sockVars,
                 recvVars, readVars, link, opened, sent, mixed>>

Drop ==
  /\ MayDrop /\ link # {}
  /\ link' = {} /\ frames' = <<>>
  /\ UNCHANGED <<uiVars, running, engineVars, inbound, outbound, pendVars, sockVars,
                 recvVars, readVars, opened, asked, sent, mixed>>

Bike == Answer \/ Drop

Next == \/ UiThread \/ EngineThread \/ ReceiverThread \/ Bike
        \/ \E a \in 1..Activities : Reader(a)

(* Every thread is scheduled; the user and the bike owe nothing.           *)
Fairness ==
  /\ WF_vars(OnIpDiscovered \/ Launch \/ StartReader \/ Join)
  /\ WF_vars(EngineThread) /\ WF_vars(ReceiverThread)
  /\ \A a \in 1..Activities : WF_vars(Reader(a))

Spec == Init /\ [][Next]_vars
FairSpec == Spec /\ Fairness

----------------------------------------------------------------------------
(* Command.cpp:62-126: a late result, a result of a monitor, and a result  *)
(* that arrives in a later session are never taken for the answer to       *)
(* another command, as long as the ids have not come round.                *)
AnswerIsOwn == ~mixed

(* Its own answer or none, with every variable of the kind it has.         *)
AnswersAreOwn == TypeOK /\ AnswerIsOwn

(* gPending outlives commands and sessions: a slot that no thread waits    *)
(* for is one of a monitor or a cancel (Command.cpp:76, Engine.cpp:96,128).*)
PendingAccounted ==
  \A i \in DOMAIN pending :
    pending[i].kind = Asks => command.id = i /\ engine \in {"send", "await"}

(* Transport.cpp:98 and :224-226: connect replaces the socket while the    *)
(* engine runs; the receiver does not use it any more by then.             *)
SocketOwned == receiver = "on" => fd = listens

(* Engine.cpp:61-63: outside a session there is no receiver and no socket. *)
SessionEnds ==
  engine \in {"none", "born", "connect", "done"} =>
    fd = 0 /\ ~connected /\ receiver \in {"off", "ended"}

(* native-lib.cpp:80-81: the UI thread joins the engine in onDestroy, and  *)
(* is not kept waiting by a lost link, a blocked pop or the receiver.      *)
StopEnds == ui = "join" ~> ui # "join"

(* Engine.cpp:53-59: texts do not wait behind a command whose result never *)
(* comes.                                                                  *)
TextsAreTaken == inbound # <<>> /\ engine = "check" ~> inbound = <<>> \/ ~running

(* MessageQueue.h:38-49: the reader of an activity that was destroyed ends.*)
ReadersEnd ==
  \A a \in 1..Activities : (reader[a] = "asking" /\ ~polling[a]) ~> reader[a] = "gone"

----------------------------------------------------------------------------
(* "Blocks for the lifetime of the connection" (Engine.h:67): run returns  *)
(* when the connection is gone.                                            *)
EndsWithConnection == engine = "check" /\ receiver = "ended" ~> engine = "done"

(* "engine has stopped ... nothing more will ever arrive"                  *)
(* (MessageThread.java:37-38): the reader of the activity on the screen    *)
(* has not given up while the engine is connected.                         *)
ReaderStays == alive /\ engine \in {"check", "pop"} => reader[activity] # "gone"

(* "safety: clean up any previous session" (native-lib.cpp:35): initEngine *)
(* gets past its join.                                                     *)
LaunchEnds == ui = "init" ~> ui # "init"
============================================================================
