----------------------------- MODULE PhoneProofs -----------------------------
(***************************************************************************)
(* Theorems about the Android application, for any number of ids, texts,   *)
(* activities and frames: who owns the socket and the pending results.     *)
(***************************************************************************)
EXTENDS Phone, TLAPS

Command == [no : Nat, id : Nat]
Frame == [no : Nat, id : Nat]
Promise == [ready : BOOLEAN, by : Nat, kind : Texts]

Types ==
  /\ command \in Command /\ frames \in Seq(Frame)
  /\ asked \in SUBSET [no : Nat, id : Nat, kind : Texts]
  /\ inbound \in Seq(Texts) /\ text \in Texts \cup {None}
  /\ counter \in Nat
  /\ pending \in [DOMAIN pending -> Promise]

\* The engine's thread exists from its launch to its join.
Threads == ~joinable => engine \in {"none", "done"}

\* The receiver lives within a session, on the socket that connect made; only
\* its own end clears connected_, which is what lets a send connect again.
Receives ==
  /\ receiver \in {"off", "on", "leaving", "ended"}
  /\ receiver = "on" => fd = listens
  /\ receiver \in {"on", "leaving"} => connected
  /\ engine \in {"none", "born", "connect", "done"} =>
       fd = 0 /\ ~connected /\ receiver \in {"off", "ended"}

\* The only slot whose answer is awaited is that of the command being sent.
Awaits ==
  /\ engine \in {"build", "slot", "send", "await"} => text \in Texts
  /\ \A i \in DOMAIN pending : pending[i].kind = Asks =>
       command.id = i /\ engine \in {"send", "await"} /\ text = Asks

IInv == Types /\ Threads /\ Receives /\ Awaits

LEMMA InitInv == Init => IInv
  <1> SUFFICES ASSUME Init PROVE IInv
    OBVIOUS
  <1> USE DEF Init
  <1>1. command \in Command
    BY DEF Command, Nothing
  <1>2. pending \in [DOMAIN pending -> Promise] /\ DOMAIN pending = {}
    OBVIOUS
  <1>3. frames \in Seq(Frame) /\ inbound \in Seq(Texts)
    OBVIOUS
  <1>4. Types
    BY <1>1, <1>2, <1>3 DEF Types
  <1>5. Threads /\ Receives
    BY DEF Threads, Receives
  <1>6. Awaits
    BY <1>2 DEF Awaits
  <1>7. QED
    BY <1>4, <1>5, <1>6 DEF IInv

\* The UI thread touches the engine only by starting and joining its thread.
LEMMA UiInv == IInv /\ UiThread => IInv'
  <1> SUFFICES ASSUME IInv, UiThread PROVE IInv'
    OBVIOUS
  <1> USE DEF IInv
  <1>1. UNCHANGED <<text, command, pendVars, sockVars, recvVars, bikeVars>>
    BY DEF UiThread, CreateActivity, BikeFound, OnIpDiscovered, Launch, StartReader,
           DestroyActivity, Join, SendText, engineVars
  <1>2. inbound' \in Seq(Texts)
    BY DEF UiThread, CreateActivity, BikeFound, OnIpDiscovered, Launch, StartReader,
           DestroyActivity, Join, SendText, Types
  <1>3. Types'
    BY <1>1, <1>2 DEF Types, pendVars, bikeVars
  <1>4. CASE Launch
    <2>1. engine \in {"none", "done"}
      BY <1>4 DEF Launch, Threads
    <2>2. Threads' /\ Receives'
      BY <1>1, <1>4, <2>1 DEF Launch, Threads, Receives, sockVars, recvVars
    <2>3. Awaits'
      BY <1>1, <1>4, <2>1 DEF Launch, Awaits, pendVars
    <2>4. QED
      BY <1>3, <2>2, <2>3
  <1>5. CASE engine' = engine /\ (joinable' = joinable \/ engine = "done")
    BY <1>1, <1>3, <1>5 DEF Threads, Receives, Awaits, sockVars, recvVars, pendVars
  <1>6. QED
    BY <1>4, <1>5 DEF UiThread, CreateActivity, BikeFound, OnIpDiscovered, StartReader,
           DestroyActivity, Join, SendText, engineVars, uiVars

-----------------------------------------------------------------------------
(* The engine's thread.                                                      *)

\* connect, its failure and the end of a session.
LEMMA SessionInv ==
  ASSUME IInv, RunBegins \/ RunConnects \/ RunFails \/ Check \/ GiveUp \/ Dismiss \/ Disconnect
  PROVE  IInv'
  <1> USE DEF IInv, EngineStep, pendVars, sockVars, recvVars, bikeVars, uiVars
  <1>1. UNCHANGED <<text, command, inbound, counter, pending, asked, joinable>>
    BY DEF RunBegins, RunConnects, RunFails, Check, GiveUp, Dismiss, Disconnect
  <1>2. frames' \in {frames, <<>>}
    BY DEF RunBegins, RunConnects, RunFails, Check, GiveUp, Dismiss, Disconnect
  <1>2a. <<>> \in Seq(Frame)
    OBVIOUS
  <1>3. frames' \in Seq(Frame)
    BY <1>2, <1>2a DEF Types
  <1>4. Types'
    BY <1>1, <1>3 DEF Types
  <1>5. Threads'
    BY <1>1 DEF Threads, RunBegins, RunConnects, RunFails, Check, GiveUp, Dismiss, Disconnect
  <1>6. Awaits'
    BY <1>1 DEF Awaits, RunBegins, RunConnects, RunFails, Check, GiveUp, Dismiss, Disconnect
  <1>7. ASSUME RunConnects PROVE Receives'
    BY <1>7 DEF Receives, RunConnects, Connected
  <1>8. ASSUME RunBegins \/ RunFails PROVE Receives'
    BY <1>8 DEF Receives, RunBegins, RunFails
  <1>9. ASSUME Check \/ GiveUp \/ Dismiss PROVE Receives'
    BY <1>9 DEF Receives, Check, GiveUp, Dismiss
  <1>10. ASSUME Disconnect PROVE Receives'
    BY <1>10 DEF Receives, Disconnect, Joined
  <1>11. Receives'
    BY <1>7, <1>8, <1>9, <1>10
  <1>12. QED
    BY <1>4, <1>5, <1>6, <1>11

\* A text is taken and made into a command.
LEMMA HandleInv ==
  ASSUME IInv, PopText \/ Build
  PROVE  IInv'
  <1> USE DEF IInv, EngineStep, pendVars, sockVars, recvVars, bikeVars, uiVars
  <1>1. /\ UNCHANGED <<pending, asked, frames, joinable, sockVars, recvVars>>
        /\ engine \in {"pop", "build"} /\ engine' \in {"build", "check", "slot"}
    BY DEF PopText, Build
  <1>2. Threads' /\ Receives'
    BY <1>1 DEF Threads, Receives
  <1>3. \A i \in DOMAIN pending : pending[i].kind # Asks
    BY <1>1 DEF Awaits
  <1>4. CASE PopText
    <2>1. text' \in Texts /\ inbound' \in Seq(Texts)
      BY <1>4 DEF PopText, Types
    <2>2. UNCHANGED <<command, counter>> /\ engine' = "build"
      BY <1>4 DEF PopText
    <2>3. Types'
      BY <1>1, <2>1, <2>2 DEF Types
    <2>4. Awaits'
      BY <1>1, <1>3, <2>1, <2>2 DEF Awaits
    <2>5. QED
      BY <1>2, <2>3, <2>4
  <1>5. CASE Build
    <2>1. NextId \in Nat
      BY PhoneAssumption DEF NextId, Types
    <2>2. command' \in Command /\ text' \in Texts \cup {None} /\ counter' \in Nat
          /\ UNCHANGED inbound
      BY <1>5, <2>1 DEF Build, Types, Command
    <2>3. engine' = "slot" => text' \in Texts
      BY <1>5 DEF Build, Awaits
    <2>4. Types'
      BY <1>1, <2>2 DEF Types
    <2>5. engine' \in {"check", "slot"}
      BY <1>5 DEF Build
    <2>6. Awaits'
      BY <1>1, <1>3, <2>3, <2>5 DEF Awaits
    <2>7. QED
      BY <1>2, <2>4, <2>6
  <1>6. QED
    BY <1>4, <1>5

\* CommandApi::send: the slot first, then the frame.
LEMMA MakeSlotInv == ASSUME IInv, MakeSlot PROVE IInv'
  <1> USE DEF IInv, EngineStep, pendVars, sockVars, recvVars, bikeVars, uiVars
  <1>1. /\ UNCHANGED <<text, command, inbound, counter, asked, frames, joinable, sockVars, recvVars>>
        /\ engine = "slot" /\ engine' = "send"
    BY DEF MakeSlot
  <1>2. Threads' /\ Receives'
    BY <1>1 DEF Threads, Receives
  <1>3. text \in Texts
    BY <1>1 DEF Awaits
  <1>4. Slot \in Promise
    BY <1>3 DEF Slot, Promise
  <1>5. pending' \in [DOMAIN pending' -> Promise]
    BY <1>4 DEF MakeSlot, Types
  <1>6. Types'
    BY <1>1, <1>5 DEF Types
  <1>7. \A i \in DOMAIN pending' :
          pending'[i].kind = Asks => i = command.id /\ text = Asks
    BY <1>1 DEF MakeSlot, Awaits, Slot
  <1>8. Awaits'
    BY <1>1, <1>3, <1>7 DEF Awaits
  <1>9. QED
    BY <1>2, <1>6, <1>8

LEMMA SendInv == ASSUME IInv, SendGoesOut \/ Reconnect PROVE IInv'
  <1> USE DEF IInv, EngineStep, pendVars, sockVars, recvVars, bikeVars, uiVars
  <1>1. UNCHANGED <<inbound, pending, counter, frames, joinable, recvVars>> /\ engine = "send"
        /\ engine' \in {"send", "await", "check"}
    BY DEF SendGoesOut, Reconnect, Sent, engineVars
  <1>2. text \in Texts
    BY <1>1 DEF Awaits
  <1>3. Threads'
    BY <1>1 DEF Threads
  <1>4. CASE Reconnect
    <2>1. UNCHANGED <<engine, text, command, asked>> /\ connected' = TRUE /\ ~connected
      BY <1>4 DEF Reconnect, MayReplace, Connected, engineVars
    <2>2. Receives'
      BY <1>1, <2>1 DEF Receives
    <2>3. Types' /\ Awaits'
      BY <1>1, <2>1 DEF Types, Awaits
    <2>4. QED
      BY <1>3, <2>2, <2>3
  <1>5. CASE SendGoesOut
    <2>1. Receives'
      BY <1>1, <1>5 DEF Receives, SendGoesOut
    <2>2. command' \in Command /\ text' \in Texts \cup {None}
      BY <1>2, <1>5 DEF SendGoesOut, Sent, Handled, Types, Command
    <2>3. asked' \in SUBSET [no : Nat, id : Nat, kind : Texts]
      BY <1>2, <1>5 DEF SendGoesOut, Types, Command
    <2>4. Types'
      BY <1>1, <2>2, <2>3 DEF Types
    <2>5. ASSUME text = Asks PROVE Awaits'
      BY <1>1, <1>5, <2>5 DEF Awaits, SendGoesOut, Sent
    <2>6. ASSUME text # Asks PROVE Awaits'
      <3>1. \A i \in DOMAIN pending : pending[i].kind # Asks
        BY <2>6 DEF Awaits
      <3>2. engine' = "check"
        BY <1>5, <2>6 DEF SendGoesOut, Sent
      <3>3. QED
        BY <1>1, <3>1, <3>2 DEF Awaits
    <2>7. QED
      BY <1>3, <2>1, <2>4, <2>5, <2>6
  <1>6. QED
    BY <1>4, <1>5

\* Whatever ends a command takes its slot away.
LEMMA EndInv == ASSUME IInv, SendFails \/ Collect \/ Timeout PROVE IInv'
  <1> USE DEF IInv, EngineStep, pendVars, sockVars, recvVars, bikeVars, uiVars
  <1>1. /\ UNCHANGED <<inbound, counter, asked, frames, joinable, sockVars, recvVars>>
        /\ engine \in {"send", "await"} /\ engine' = "check"
        /\ pending' = Without(command.id) /\ Handled
    BY DEF SendFails, Collect, Timeout
  <1>2. Threads' /\ Receives'
    BY <1>1 DEF Threads, Receives
  <1>3. pending' \in [DOMAIN pending' -> Promise]
    BY <1>1 DEF Without, Types
  <1>4. command' \in Command /\ text' \in Texts \cup {None}
    BY <1>1 DEF Handled, Types, Command
  <1>5. Types'
    BY <1>1, <1>3, <1>4 DEF Types
  <1>6. \A i \in DOMAIN pending' : pending'[i].kind # Asks
    BY <1>1 DEF Without, Awaits
  <1>7. Awaits'
    BY <1>1, <1>6 DEF Awaits
  <1>8. QED
    BY <1>2, <1>5, <1>7

-----------------------------------------------------------------------------
(* The receiver, the readers and the bike.                                   *)

LEMMA ReceiverInv == ASSUME IInv, ReceiverThread PROVE IInv'
  <1> USE DEF IInv, pendVars, sockVars, recvVars, bikeVars, uiVars, engineVars
  <1>1. CASE Receive
    <2>0. frames \in Seq(Frame) /\ frames # <<>> /\ frames' = Tail(frames)
      BY <1>1 DEF Receive, Types
    <2>1. Head(frames) \in Frame /\ frames' \in Seq(Frame)
      BY <2>0
    <2>2. DOMAIN pending' = DOMAIN pending
      BY <1>1 DEF Receive
    <2>3. ASSUME NEW i \in DOMAIN pending
          PROVE  pending'[i] \in Promise /\ pending'[i].kind = pending[i].kind
      <3>1. pending[i] \in Promise
        BY DEF Types
      <3>2. Head(frames).no \in Nat
        BY <2>1 DEF Frame
      <3>3. QED
        BY <1>1, <3>1, <3>2 DEF Receive, Promise
    <2>4. pending' \in [DOMAIN pending' -> Promise]
      BY <1>1, <2>2, <2>3 DEF Receive
    <2>5. Types'
      BY <1>1, <2>1, <2>4 DEF Receive, Types
    <2>6. Threads' /\ Receives'
      BY <1>1 DEF Receive, Threads, Receives
    <2>7. Awaits'
      BY <1>1, <2>2, <2>3 DEF Receive, Awaits
    <2>8. QED
      BY <2>5, <2>6, <2>7
  <1>2. CASE ReceiverLeaves
    BY <1>2 DEF ReceiverLeaves, Types, Threads, Receives, Awaits
  <1>3. CASE ReceiverEnds
    BY <1>3 DEF ReceiverEnds, Types, Threads, Receives, Awaits
  <1>4. QED
    BY <1>1, <1>2, <1>3 DEF ReceiverThread

LEMMA BikeInv == ASSUME IInv, Bike PROVE IInv'
  <1> USE DEF IInv, pendVars, sockVars, recvVars, uiVars, engineVars
  <1>1. UNCHANGED <<joinable, engine, text, command, inbound, counter, pending, sockVars, recvVars>>
    BY DEF Bike, Answer, Drop
  <1>2. CASE Answer
    <2>1. PICK a \in asked : /\ frames' = Append(frames, [no |-> a.no, id |-> a.id])
                             /\ asked' = IF a.kind = Watches THEN asked ELSE asked \ {a}
      BY <1>2 DEF Answer
    <2>2. frames' \in Seq(Frame) /\ asked' \in SUBSET [no : Nat, id : Nat, kind : Texts]
      BY <2>1 DEF Types, Frame
    <2>3. QED
      BY <1>1, <2>2 DEF Types, Threads, Receives, Awaits
  <1>3. CASE Drop
    <2>1. frames' = <<>> /\ asked' = asked
      BY <1>3 DEF Drop
    <2>2. QED
      BY <1>1, <2>1 DEF Types, Threads, Receives, Awaits
  <1>4. QED
    BY <1>2, <1>3 DEF Bike

LEMMA Untouched ==
  ASSUME IInv, UNCHANGED <<joinable, engineVars, inbound, pendVars, sockVars, recvVars, bikeVars>>
  PROVE  IInv'
  BY DEF IInv, Types, Threads, Receives, Awaits, engineVars, pendVars, sockVars, recvVars, bikeVars

LEMMA StepInv == IInv /\ [Next]_vars => IInv'
  <1> SUFFICES ASSUME IInv, [Next]_vars PROVE IInv'
    OBVIOUS
  <1>1. CASE EngineThread
    BY <1>1, SessionInv, HandleInv, MakeSlotInv, SendInv, EndInv DEF EngineThread
  <1>2. ASSUME NEW a \in 1 .. Activities, Reader(a) PROVE IInv'
    BY <1>2, Untouched DEF Reader, Read, ReaderGivesUp, uiVars
  <1>3. CASE UNCHANGED vars
    BY <1>3, Untouched DEF vars, uiVars
  <1>4. QED
    BY <1>1, <1>2, <1>3, UiInv, ReceiverInv, BikeInv DEF Next

LEMMA Invariance == Spec => []IInv
  BY InitInv, StepInv, PTL DEF Spec

-----------------------------------------------------------------------------

\* Transport.cpp:98: a send connects again only when the receiver of this session
\* has ended, so the receiver never reads a socket that is not its own.
THEOREM SocketIsOwned == Spec => []SocketOwned
  <1>1. IInv => SocketOwned
    BY DEF IInv, Receives, SocketOwned
  <1>2. QED
    BY <1>1, Invariance, PTL

\* Engine.cpp:61-63: whatever the link, the bike and the user do, a session that
\* is over leaves neither a socket nor a receiver to the next.
THEOREM SessionIsOver == Spec => []SessionEnds
  <1>1. IInv => SessionEnds
    BY DEF IInv, Receives, SessionEnds
  <1>2. QED
    BY <1>1, Invariance, PTL

\* Command.cpp:76: of the slots that outlive commands and sessions, none but that
\* of the command being sent is one for an answer somebody waits for.
THEOREM PendingIsAccounted == Spec => []PendingAccounted
  <1>1. IInv => PendingAccounted
    BY DEF IInv, Awaits, PendingAccounted
  <1>2. QED
    BY <1>1, Invariance, PTL

-----------------------------------------------------------------------------
(* The ids.  Every text that is taken uses up one id at most, so as long as  *)
(* there are no more texts than ids, no id is given out twice.               *)

EngineStates == {"none", "born", "connect", "check", "pop", "build", "slot",
                 "send", "await", "close", "end", "done"}
Notices == {"connected", "disconnected", "report"}

Kinds ==
  /\ ui \in {"idle", "create", "init", "launch", "stop", "join"}
  /\ activity \in 0..Activities /\ discovery \in {"off", "listening", "posted"}
  /\ {alive, joinable, running, connected, keep} \subseteq BOOLEAN
  /\ engine \in EngineStates
  /\ outbound \in Seq(Notices)
  /\ {fd, listens, opened} \subseteq Nat /\ link \subseteq 1..opened
  /\ DOMAIN reader = 1..Activities /\ polling \in [1..Activities -> BOOLEAN]
  /\ shown \in {"none", "connected", "disconnected"}
  /\ Len(frames) <= Cap

\* The texts are sent, waiting, being built, or have used up their id.
IdsCounted ==
  /\ sent \in 0..MaxTexts
  /\ counter + Len(inbound) + (IF engine = "build" THEN 1 ELSE 0) <= sent
  /\ command.no <= counter /\ command.id <= counter
  /\ DOMAIN pending \subseteq 1..counter
  /\ engine \in {"slot", "send", "await"} => command.id # 0
  /\ engine \in {"send", "await"} => command.id \in DOMAIN pending

\* The commands with their ids, wherever they are: at the bike, on their way back,
\* in a slot, or being sent.
Label(x) == <<x.no, x.id>>
Labels ==
  {Label(a) : a \in asked} \cup {Label(frames[k]) : k \in DOMAIN frames}
  \cup {<<pending[i].by, i>> : i \in {j \in DOMAIN pending : pending[j].ready}}
  \cup {<<command.no, i>> : i \in {command.id} \ {0}}

\* An id stands for one command.
Matched ==
  /\ \A p \in Labels : p[2] \in 1..counter
  /\ \A p, q \in Labels : p[2] = q[2] => p[1] = q[1]

IdInv == Kinds /\ IdsCounted /\ Matched /\ AnswerIsOwn

LEMMA InitIds == Init => IdInv
  <1> SUFFICES ASSUME Init PROVE IdInv
    OBVIOUS
  <1> USE DEF Init
  <1>0. <<>> \in Seq(Notices) /\ Len(frames) = 0 /\ {} \subseteq 1..opened
    OBVIOUS
  <1>1. Kinds
    <2>1. DOMAIN reader = 1..Activities /\ polling \in [1..Activities -> BOOLEAN]
      OBVIOUS
    <2>2. activity \in 0..Activities /\ Len(frames) <= Cap
      BY <1>0, PhoneAssumption
    <2>3. {alive, joinable, running, connected, keep} \subseteq BOOLEAN
      OBVIOUS
    <2>4. {fd, listens, opened} \subseteq Nat /\ link \subseteq 1..opened
      OBVIOUS
    <2>5. QED
      BY <1>0, <2>1, <2>2, <2>3, <2>4 DEF Kinds, EngineStates
  <1>2. DOMAIN pending = {} /\ DOMAIN frames = {} /\ Len(inbound) = 0
    OBVIOUS
  <1>3. IdsCounted
    BY <1>2, PhoneAssumption DEF IdsCounted, Nothing
  <1>4. Labels = {}
    BY <1>2 DEF Labels, Nothing
  <1>5. QED
    BY <1>1, <1>3, <1>4 DEF IdInv, Matched, AnswerIsOwn

\* A step that gives out no id only moves the commands about.
LEMMA LabelsShrink ==
  ASSUME Labels' \subseteq Labels, counter' = counter, Matched
  PROVE  Matched'
  BY DEF Matched

LEMMA SameLabels ==
  ASSUME IInv, \/ asked' = asked \/ asked' \subseteq asked
         , frames' \in {frames, <<>>}, pending' = pending,
         command' = command \/ (command'.no = command.no /\ command'.id = 0)
  PROVE  Labels' \subseteq Labels
  BY DEF Labels, Label

\* The UI thread: a text that is sent waits.
LEMMA UiIds == ASSUME IInv, IdInv, UiThread PROVE IdInv'
  <1> USE DEF uiVars, engineVars, pendVars, sockVars, recvVars, readVars, bikeVars
  <1>1. /\ UNCHANGED <<text, command, outbound, pendVars, sockVars, recvVars, bikeVars, mixed, shown>>
        /\ engine' = engine \/ (engine' = "born" /\ engine \in {"none", "done"})
    BY DEF UiThread, CreateActivity, BikeFound, OnIpDiscovered, Launch, StartReader,
           DestroyActivity, Join, SendText, IInv, Threads
  <1>2. Kinds'
    <2>1. /\ ui' \in {"idle", "create", "init", "launch", "stop", "join"}
          /\ activity' \in 0..Activities /\ discovery' \in {"off", "listening", "posted"}
          /\ {alive', joinable', running'} \subseteq BOOLEAN
      <3>1. {alive, joinable, running} \subseteq BOOLEAN /\ activity \in 0..Activities
        BY DEF IdInv, Kinds
      <3>2. activity' \in {activity, activity + 1} /\ (activity' # activity => activity < Activities)
        BY DEF UiThread, CreateActivity, BikeFound, OnIpDiscovered, Launch, StartReader,
           DestroyActivity, Join, SendText
      <3>3. /\ alive' \in {alive, TRUE, FALSE} /\ joinable' \in {joinable, TRUE, FALSE}
            /\ running' \in {running, FALSE}
        BY DEF UiThread, CreateActivity, BikeFound, OnIpDiscovered, Launch, StartReader,
           DestroyActivity, Join, SendText
      <3>4. /\ ui' \in {"idle", "create", "init", "launch", "stop", "join"}
            /\ discovery' \in {"off", "listening", "posted"}
        BY DEF UiThread, CreateActivity, BikeFound, OnIpDiscovered, Launch, StartReader,
           DestroyActivity, Join, SendText, IdInv, Kinds
      <3>5. activity' \in 0..Activities
        BY <3>1, <3>2, PhoneAssumption
      <3>6. {alive', joinable', running'} \subseteq BOOLEAN
        BY <3>1, <3>3
      <3>7. QED
        BY <3>4, <3>5, <3>6
    <2>2. DOMAIN reader' = 1..Activities /\ polling' \in [1..Activities -> BOOLEAN]
      BY DEF UiThread, CreateActivity, BikeFound, OnIpDiscovered, Launch, StartReader,
           DestroyActivity, Join, SendText, IdInv, Kinds
    <2>3. QED
      BY <1>1, <2>1, <2>2 DEF IdInv, Kinds, EngineStates
  <1>3. IdsCounted'
    <2>1. inbound \in Seq(Texts) /\ sent \in Nat /\ MaxTexts \in Nat
      BY PhoneAssumption DEF IInv, Types, IdInv, IdsCounted
    <2>2. CASE SendText
      <3>1. Len(inbound') = Len(inbound) + 1 /\ sent' = sent + 1 /\ sent < MaxTexts /\ engine' = engine
        BY <2>1, <2>2 DEF SendText
      <3>2. counter \in Nat
        BY DEF IInv, Types
      <3>3. QED
        BY <1>1, <2>1, <3>1, <3>2 DEF IdInv, IdsCounted
    <2>3. CASE inbound' = inbound /\ sent' = sent
      BY <1>1, <2>3 DEF IdInv, IdsCounted
    <2>4. QED
      BY <2>2, <2>3 DEF UiThread, CreateActivity, BikeFound, OnIpDiscovered, Launch, StartReader,
           DestroyActivity, Join
  <1>4. Matched'
    BY <1>1, SameLabels, LabelsShrink DEF IdInv
  <1>5. QED
    BY <1>1, <1>2, <1>3, <1>4 DEF IdInv, AnswerIsOwn

-----------------------------------------------------------------------------
(* The engine's thread.                                                      *)

LEMMA PutKind ==
  ASSUME outbound \in Seq(Notices), NEW m \in Seq(Notices), Put(m)
  PROVE  outbound' \in Seq(Notices)
  BY DEF Put

LEMMA EngineKinds == ASSUME IInv, Kinds, EngineThread PROVE Kinds'
  <1> USE DEF EngineStep, uiVars, engineVars, pendVars, sockVars, recvVars, readVars, bikeVars
  <1>1. UNCHANGED <<uiVars, readVars>>
    BY DEF EngineThread, RunBegins, RunConnects, RunFails, Check, PopText, GiveUp, Build, MakeSlot,
       SendGoesOut, Reconnect, SendFails, Collect, Timeout, Dismiss, Disconnect
  <1>2. engine' \in EngineStates /\ {running', keep'} \subseteq BOOLEAN
    BY DEF EngineThread, RunBegins, RunConnects, RunFails, Check, PopText, GiveUp, Build, MakeSlot,
       SendGoesOut, Reconnect, SendFails, Collect, Timeout, Dismiss, Disconnect, Sent, Kinds,
       EngineStates
  <1>3. outbound' \in Seq(Notices)
    <2>1. /\ <<"connected">> \in Seq(Notices) /\ <<"disconnected">> \in Seq(Notices)
          /\ <<"report">> \in Seq(Notices) /\ <<"report", "disconnected">> \in Seq(Notices)
      BY DEF Notices
    <2>2. \/ outbound' = outbound \/ Put(<<"connected">>) \/ Put(<<"disconnected">>)
          \/ Put(<<"report">>) \/ Put(<<"report", "disconnected">>)
      BY DEF EngineThread, RunBegins, RunConnects, RunFails, Check, PopText, GiveUp, Build, MakeSlot,
         SendGoesOut, Reconnect, SendFails, Collect, Timeout, Dismiss, Disconnect, Sent
    <2>3. QED
      BY <2>1, <2>2, PutKind DEF Kinds
  <1>4. {fd', listens', opened'} \subseteq Nat /\ link' \subseteq 1..opened' /\ connected' \in BOOLEAN
    <2>1. \/ UNCHANGED <<fd, connected, listens, opened, link>>
          \/ Connected /\ listens' \in {listens, opened + 1}
          \/ UNCHANGED <<listens, opened>> /\ fd' = 0 /\ connected' = FALSE /\ link' = link \ {fd}
      BY DEF EngineThread, RunBegins, RunConnects, RunFails, Check, PopText, GiveUp, Build, MakeSlot,
         SendGoesOut, Reconnect, SendFails, Collect, Timeout, Dismiss, Disconnect
    <2>2. {fd, listens, opened} \subseteq Nat /\ link \subseteq 1..opened /\ connected \in BOOLEAN
      BY DEF Kinds
    <2>3. CASE Connected /\ listens' \in {listens, opened + 1}
      <3>1. opened' = opened + 1 /\ fd' = opened + 1 /\ connected' = TRUE /\ opened \in Nat
        BY <2>2, <2>3 DEF Connected
      <3>2. link' \subseteq 1..opened'
        BY <2>2, <2>3, <3>1 DEF Connected
      <3>3. QED
        BY <2>2, <2>3, <3>1, <3>2
    <2>4. CASE UNCHANGED <<fd, connected, listens, opened, link>>
      BY <2>2, <2>4
    <2>5. CASE /\ UNCHANGED <<listens, opened>> /\ fd' = 0 /\ connected' = FALSE
               /\ link' = link \ {fd}
      <3>1. fd' = 0 /\ connected' = FALSE /\ listens' = listens /\ opened' = opened
        BY <2>5
      <3>2. link' \subseteq 1..opened'
        BY <2>2, <2>5, <3>1
      <3>3. {fd', listens', opened'} \subseteq Nat
        BY <2>2, <3>1
      <3>4. QED
        BY <3>1, <3>2, <3>3
    <2>6. QED
      BY <2>1, <2>3, <2>4, <2>5
  <1>5. Len(frames') <= Cap
    <2>1. frames' \in {frames, <<>>}
      BY DEF EngineThread, RunBegins, RunConnects, RunFails, Check, PopText, GiveUp, Build, MakeSlot,
         SendGoesOut, Reconnect, SendFails, Collect, Timeout, Dismiss, Disconnect
    <2>2. QED
      BY <2>1, PhoneAssumption DEF Kinds
  <1>6. QED
    BY <1>1, <1>2, <1>3, <1>4, <1>5 DEF Kinds

\* A session begins and ends; a text is taken.
LEMMA SessionIds ==
  ASSUME IInv, IdInv, \/ RunBegins \/ RunConnects \/ RunFails \/ Check \/ GiveUp \/ Dismiss
                      \/ Disconnect \/ PopText \/ Reconnect
  PROVE  IdsCounted' /\ Matched' /\ AnswerIsOwn'
  <1> USE DEF EngineStep, uiVars, engineVars, pendVars, sockVars, recvVars, readVars, bikeVars
  <1>1. /\ UNCHANGED <<command, counter, pending, asked, sent, mixed>>
        /\ frames' \in {frames, <<>>}
    BY DEF RunBegins, RunConnects, RunFails, Check, GiveUp, Dismiss, Disconnect, PopText, Reconnect
  <1>2. Matched' /\ AnswerIsOwn'
    BY <1>1, SameLabels, LabelsShrink DEF IdInv, AnswerIsOwn
  <1>3. counter \in Nat /\ inbound \in Seq(Texts) /\ sent \in Nat
    BY PhoneAssumption DEF IInv, Types, IdInv, IdsCounted
  <1>4. CASE PopText
    <2>1. /\ Len(inbound') + 1 = Len(inbound) /\ Len(inbound) \in Nat
          /\ engine = "pop" /\ engine' = "build"
      BY <1>3, <1>4 DEF PopText
    <2>2. Len(inbound') \in Nat
      BY <1>3, <1>4 DEF PopText
    <2>3. QED
      BY <1>1, <1>2, <1>3, <2>1, <2>2 DEF IdInv, IdsCounted
  <1>5. CASE inbound' = inbound
    <2>1. engine' = engine \/ (engine # "build" /\ engine' \notin {"build", "slot", "send", "await"})
      BY <1>5 DEF RunBegins, RunConnects, RunFails, Check, GiveUp, Dismiss, Disconnect, PopText,
         Reconnect
    <2>2. QED
      BY <1>1, <1>2, <1>5, <2>1 DEF IdInv, IdsCounted
  <1>6. QED
    BY <1>4, <1>5 DEF RunBegins, RunConnects, RunFails, Check, GiveUp, Dismiss, Disconnect, Reconnect

\* The next id is one that nothing has yet.
LEMMA BuildIds ==
  ASSUME MaxTexts <= Ids, IInv, IdInv, Build
  PROVE  IdsCounted' /\ Matched' /\ AnswerIsOwn'
  <1> USE DEF uiVars, engineVars, pendVars, sockVars, recvVars, readVars, bikeVars
  <1>1. /\ UNCHANGED <<inbound, pending, asked, frames, sent, mixed>> /\ engine = "build"
        /\ counter' = NextId
    BY DEF Build
  <1>2. /\ counter \in Nat /\ Len(inbound) \in Nat /\ sent \in 0..MaxTexts /\ MaxTexts \in Nat
        /\ Ids \in Nat \ {0} /\ command.no \in Nat /\ command.id \in Nat
    BY PhoneAssumption DEF IInv, Types, Command, IdInv, IdsCounted
  <1>3. counter + Len(inbound) + 1 <= sent
    BY <1>1 DEF IdInv, IdsCounted
  <1>4. counter \in 0 .. Ids - 1
    BY <1>2, <1>3
  <1>5. counter % Ids = counter
    BY <1>2, <1>4
  <1>6. counter' = counter + 1
    BY <1>1, <1>2, <1>5 DEF NextId
  <1>7. CASE command' = command /\ engine' = "check"
    <2>1. Labels' \subseteq Labels
      BY <1>1, <1>7, SameLabels
    <2>2. Matched'
      BY <1>2, <1>6, <2>1 DEF IdInv, Matched
    <2>3. IdsCounted'
      BY <1>1, <1>2, <1>3, <1>6, <1>7 DEF IdInv, IdsCounted
    <2>4. QED
      BY <1>1, <2>2, <2>3 DEF IdInv, AnswerIsOwn
  <1>8. CASE command' = [no |-> command.no + 1, id |-> NextId] /\ engine' = "slot"
    <2>1. command'.no = command.no + 1 /\ command'.id = counter + 1
      BY <1>1, <1>6, <1>8
    <2>2. Labels' \subseteq Labels \cup {<<command.no + 1, counter + 1>>}
      BY <1>1, <2>1 DEF Labels, Label
    <2>3. \A p \in Labels : p[2] \in 1..counter
      BY DEF IdInv, Matched
    <2>4. \A p \in Labels' : p[2] \in 1..counter + 1
      BY <1>2, <2>2, <2>3
    <2>5. \A p, q \in Labels' : p[2] = q[2] => p[1] = q[1]
      BY <1>2, <2>2, <2>3 DEF IdInv, Matched
    <2>6. Matched'
      BY <1>6, <2>4, <2>5 DEF Matched
    <2>7. IdsCounted'
      BY <1>1, <1>2, <1>3, <1>6, <1>8, <2>1 DEF IdInv, IdsCounted
    <2>8. QED
      BY <1>1, <2>6, <2>7 DEF IdInv, AnswerIsOwn
  <1>9. QED
    BY <1>7, <1>8 DEF Build

\* The command goes to its slot and to the bike under its id.
LEMMA SendIds ==
  ASSUME IInv, IdInv, MakeSlot \/ SendGoesOut
  PROVE  IdsCounted' /\ Matched' /\ AnswerIsOwn'
  <1> USE DEF EngineStep, uiVars, engineVars, pendVars, sockVars, recvVars, readVars, bikeVars
  <1>1. /\ UNCHANGED <<inbound, counter, frames, sent, mixed>>
        /\ engine \in {"slot", "send"} /\ engine' \in {"send", "await", "check"}
    BY DEF MakeSlot, SendGoesOut, Sent
  <1>2. /\ command.id # 0 /\ command.id \in Nat /\ counter \in Nat /\ command.id <= counter
        /\ command.no \in Nat
    BY <1>1 DEF IInv, Types, Command, IdInv, IdsCounted
  <1>3. CASE MakeSlot
    <2>1. /\ UNCHANGED <<command, asked>> /\ engine = "slot" /\ engine' = "send"
          /\ DOMAIN pending' = DOMAIN pending \cup {command.id}
          /\ \A i \in DOMAIN pending' : pending'[i] = IF i = command.id THEN Slot ELSE pending[i]
      BY <1>3 DEF MakeSlot
    <2>2. ~Slot.ready
      BY DEF Slot
    <2>3. Labels' \subseteq Labels
      BY <1>1, <2>1, <2>2 DEF Labels, Label
    <2>4. Matched'
      BY <1>1, <2>3, LabelsShrink DEF IdInv
    <2>5. IdsCounted'
      BY <1>1, <1>2, <2>1 DEF IdInv, IdsCounted
    <2>6. QED
      BY <1>1, <2>4, <2>5 DEF IdInv, AnswerIsOwn
  <1>4. CASE SendGoesOut
    <2>1. /\ pending' = pending /\ engine = "send"
          /\ asked' \subseteq asked \cup {[no |-> command.no, id |-> command.id, kind |-> text]}
          /\ \/ engine' = "await" /\ command' = command
             \/ engine' = "check" /\ command'.no = command.no /\ command'.id = 0
      <3>1. asked' \subseteq asked \cup {[no |-> command.no, id |-> command.id, kind |-> text]}
        BY <1>4 DEF SendGoesOut
      <3>2. Sent /\ command = [no |-> command.no, id |-> command.id]
        BY <1>4 DEF SendGoesOut, IInv, Types, Command
      <3>3. \/ engine' = "await" /\ command' = command
            \/ engine' = "check" /\ command'.no = command.no /\ command'.id = 0
        <4>1. CASE text = Asks
          BY <3>2, <4>1 DEF Sent
        <4>2. CASE text # Asks
          <5>1. engine' = "check" /\ command' = [command EXCEPT !.id = 0]
            BY <3>2, <4>2 DEF Sent, Handled
          <5>2. QED
            BY <3>2, <5>1 DEF IInv, Types, Command
        <4>3. QED
          BY <4>1, <4>2
      <3>4. QED
        BY <1>4, <3>1, <3>3 DEF SendGoesOut
    <2>2. <<command.no, command.id>> \in Labels
      BY <1>2 DEF Labels
    <2>3. Labels' \subseteq Labels
      BY <1>1, <2>1, <2>2 DEF Labels, Label
    <2>4. Matched'
      BY <1>1, <2>3, LabelsShrink DEF IdInv
    <2>5. IdsCounted'
      BY <1>1, <1>2, <2>1 DEF IdInv, IdsCounted
    <2>6. QED
      BY <1>1, <2>4, <2>5 DEF IdInv, AnswerIsOwn
  <1>5. QED
    BY <1>3, <1>4

\* What is found in the slot of the command has its id, and so is its answer.
LEMMA EndIds ==
  ASSUME IInv, IdInv, SendFails \/ Collect \/ Timeout
  PROVE  IdsCounted' /\ Matched' /\ AnswerIsOwn'
  <1> USE DEF EngineStep, uiVars, engineVars, pendVars, sockVars, recvVars, readVars, bikeVars
  <1>1. /\ UNCHANGED <<inbound, counter, asked, frames, sent>>
        /\ engine \in {"send", "await"} /\ engine' = "check"
        /\ pending' = Without(command.id) /\ Handled
    BY DEF SendFails, Collect, Timeout
  <1>2. /\ command.id # 0 /\ command.id \in Nat /\ counter \in Nat /\ command.id <= counter
        /\ command.id \in DOMAIN pending
    BY <1>1 DEF IInv, Types, Command, IdInv, IdsCounted
  <1>3. command'.no = command.no /\ command'.id = 0
    BY <1>1 DEF Handled, IInv, Types, Command
  <1>4. /\ DOMAIN pending' \subseteq DOMAIN pending
        /\ \A i \in DOMAIN pending' : pending'[i] = pending[i]
    BY <1>1 DEF Without
  <1>5. Labels' \subseteq Labels
    BY <1>1, <1>3, <1>4 DEF Labels, Label
  <1>6. Matched'
    BY <1>1, <1>5, LabelsShrink DEF IdInv
  <1>7. IdsCounted'
    BY <1>1, <1>2, <1>3, <1>4 DEF IdInv, IdsCounted
  <1>8. CASE Collect
    <2>1. <<pending[command.id].by, command.id>> \in Labels
      BY <1>2, <1>8 DEF Collect, Labels
    <2>2. <<command.no, command.id>> \in Labels
      BY <1>2 DEF Labels
    <2>3. pending[command.id].by = command.no
      BY <2>1, <2>2 DEF IdInv, Matched
    <2>4. QED
      BY <1>6, <1>7, <1>8, <2>3 DEF Collect, IdInv, AnswerIsOwn
  <1>9. CASE mixed' = mixed
    BY <1>6, <1>7, <1>9 DEF IdInv, AnswerIsOwn
  <1>10. QED
    BY <1>8, <1>9 DEF SendFails, Timeout

-----------------------------------------------------------------------------
(* The receiver, the bike and the readers.                                   *)

LEMMA ReceiverIds == ASSUME IInv, IdInv, ReceiverThread PROVE IdInv'
  <1> USE DEF uiVars, engineVars, pendVars, sockVars, recvVars, readVars, bikeVars
  <1>1. /\ UNCHANGED <<uiVars, running, engineVars, inbound, outbound, counter, fd, keep, listens,
                       readVars, link, opened, asked, sent, mixed>>
        /\ connected' \in {connected, FALSE}
    BY DEF ReceiverThread, Receive, ReceiverLeaves, ReceiverEnds
  <1>2. frames \in Seq(Frame) /\ Len(frames) <= Cap /\ Cap \in Nat
    BY PhoneAssumption DEF IInv, Types, IdInv, Kinds
  <1>3. CASE Receive
    <2>1. frames # <<>> /\ frames' = Tail(frames)
      BY <1>3 DEF Receive
    <2>2. /\ DOMAIN pending' = DOMAIN pending
          /\ \A i \in DOMAIN pending :
               pending'[i] = IF i = frames[1].id
                             THEN [pending[i] EXCEPT !.ready = TRUE, !.by = frames[1].no]
                             ELSE pending[i]
      <3>1. Head(frames) = frames[1]
        BY <1>2, <2>1
      <3>2. pending' = [i \in DOMAIN pending |->
                          IF i = frames[1].id
                          THEN [pending[i] EXCEPT !.ready = TRUE, !.by = frames[1].no]
                          ELSE pending[i]]
        BY <1>3, <3>1 DEF Receive, Answers
      <3>3. QED
        BY <3>2
    <2>3. \A i \in DOMAIN pending : pending[i] \in Promise
      BY DEF IInv, Types
    <2>4. ASSUME NEW i \in DOMAIN pending, pending'[i].ready
          PROVE  <<pending'[i].by, i>> \in Labels
      <3>1. CASE i = frames[1].id
        <4>1. pending'[i].by = frames[1].no
          BY <2>2, <2>3, <3>1 DEF Promise
        <4>2. 1 \in DOMAIN frames
          BY <1>2, <2>1
        <4>3. QED
          BY <3>1, <4>1, <4>2 DEF Labels, Label
      <3>2. CASE i # frames[1].id
        BY <2>2, <2>4, <3>2 DEF Labels
      <3>3. QED
        BY <3>1, <3>2
    <2>5. \A k \in DOMAIN frames' : k + 1 \in DOMAIN frames /\ frames'[k] = frames[k + 1]
      BY <1>2, <2>1
    <2>6. \A k \in DOMAIN frames' : Label(frames'[k]) \in Labels
      BY <2>5 DEF Labels
    <2>7. Labels' \subseteq Labels
      <3>1. asked' = asked /\ command' = command
        BY <1>1
      <3>2. {<<pending'[i].by, i>> : i \in {j \in DOMAIN pending' : pending'[j].ready}} \subseteq Labels
        <4>1. ASSUME NEW i \in DOMAIN pending', pending'[i].ready
              PROVE  <<pending'[i].by, i>> \in Labels
          BY <2>2, <2>4, <4>1
        <4>2. QED
          BY <4>1
      <3>3. {Label(frames'[k]) : k \in DOMAIN frames'} \subseteq Labels
        BY <2>6
      <3>4. /\ {Label(a) : a \in asked} \subseteq Labels
            /\ {<<command.no, i>> : i \in {command.id} \ {0}} \subseteq Labels
        BY DEF Labels
      <3>5. Labels' = {Label(a) : a \in asked} \cup {Label(frames'[k]) : k \in DOMAIN frames'}
              \cup {<<pending'[i].by, i>> : i \in {j \in DOMAIN pending' : pending'[j].ready}}
              \cup {<<command.no, i>> : i \in {command.id} \ {0}}
        BY <3>1 DEF Labels, Label
      <3>6. QED
        BY <3>2, <3>3, <3>4, <3>5
    <2>8. Matched'
      BY <1>1, <2>7, LabelsShrink DEF IdInv
    <2>9. IdsCounted'
      BY <1>1, <2>2 DEF IdInv, IdsCounted
    <2>10. Len(frames') <= Cap
      BY <1>2, <2>1
    <2>11. Kinds'
      BY <1>1, <2>10 DEF IdInv, Kinds
    <2>12. QED
      BY <1>1, <2>8, <2>9, <2>11 DEF IdInv, AnswerIsOwn
  <1>4. CASE frames' = frames /\ pending' = pending
    <2>1. Matched'
      BY <1>1, <1>4, SameLabels, LabelsShrink DEF IdInv
    <2>2. QED
      BY <1>1, <1>4, <2>1 DEF IdInv, AnswerIsOwn, IdsCounted, Kinds
  <1>5. QED
    BY <1>3, <1>4 DEF ReceiverThread, ReceiverLeaves, ReceiverEnds

LEMMA BikeIds == ASSUME IInv, IdInv, Bike PROVE IdInv'
  <1> USE DEF uiVars, engineVars, pendVars, sockVars, recvVars, readVars, bikeVars
  <1>1. /\ UNCHANGED <<uiVars, running, engineVars, inbound, outbound, pendVars, sockVars,
                       recvVars, readVars, opened, sent, mixed>>
        /\ link' \subseteq link /\ asked' \subseteq asked
    BY DEF Bike, Answer, Drop
  <1>2. frames \in Seq(Frame) /\ Len(frames) <= Cap /\ Cap \in Nat
    BY PhoneAssumption DEF IInv, Types, IdInv, Kinds
  <1>3. CASE Answer
    <2>1. PICK a \in asked : frames' = Append(frames, [no |-> a.no, id |-> a.id])
      BY <1>3 DEF Answer
    <2>2. Len(frames') <= Cap /\ DOMAIN frames' = DOMAIN frames \cup {Len(frames) + 1}
      BY <1>2, <1>3, <2>1 DEF Answer
    <2>3. \A k \in DOMAIN frames' : Label(frames'[k]) \in Labels
      BY <1>2, <2>1, <2>2 DEF Labels, Label
    <2>4. Labels' \subseteq Labels
      BY <1>1, <2>3 DEF Labels, Label
    <2>5. QED
      BY <1>1, <2>2, <2>4, LabelsShrink DEF IdInv, AnswerIsOwn, IdsCounted, Kinds
  <1>4. CASE Drop
    <2>1. frames' = <<>>
      BY <1>4 DEF Drop
    <2>2. Matched'
      BY <1>1, <2>1, SameLabels, LabelsShrink DEF IdInv
    <2>3. Len(frames') <= Cap
      BY <1>2, <2>1
    <2>4. QED
      BY <1>1, <2>2, <2>3 DEF IdInv, AnswerIsOwn, IdsCounted, Kinds
  <1>5. QED
    BY <1>3, <1>4 DEF Bike

LEMMA ReaderIds == ASSUME IInv, IdInv, NEW a \in 1..Activities, Reader(a) PROVE IdInv'
  <1> USE DEF uiVars, engineVars, pendVars, sockVars, recvVars, readVars, bikeVars
  <1>1. UNCHANGED <<uiVars, running, engineVars, inbound, pendVars, sockVars,
                    recvVars, polling, bikeVars, sent, mixed>>
    BY DEF Reader, Read, ReaderGivesUp
  <1>2. DOMAIN reader' = 1..Activities
    BY DEF Reader, Read, ReaderGivesUp, NextReader, IdInv, Kinds
  <1>3. outbound \in Seq(Notices) /\ shown \in {"none", "connected", "disconnected"}
    BY DEF IdInv, Kinds
  <1>4. outbound' \in Seq(Notices) /\ shown' \in {"none", "connected", "disconnected"}
    <2>1. CASE Read(a)
      <3>1. Head(outbound) \in Notices /\ Tail(outbound) \in Seq(Notices)
        BY <1>3, <2>1 DEF Read
      <3>2. QED
        BY <1>3, <2>1, <3>1 DEF Read, NextReader, Notices
    <2>2. CASE ReaderGivesUp(a)
      BY <1>3, <2>2 DEF ReaderGivesUp
    <2>3. QED
      BY <2>1, <2>2 DEF Reader
  <1>5. Matched'
    BY <1>1, SameLabels, LabelsShrink DEF IdInv
  <1>6. QED
    BY <1>1, <1>2, <1>4, <1>5 DEF IdInv, AnswerIsOwn, IdsCounted, Kinds

LEMMA StepIds == ASSUME MaxTexts <= Ids PROVE IInv /\ IdInv /\ [Next]_vars => IdInv'
  <1> SUFFICES ASSUME IInv, IdInv, [Next]_vars PROVE IdInv'
    OBVIOUS
  <1>1. CASE EngineThread
    BY <1>1, EngineKinds, SessionIds, BuildIds, SendIds, EndIds DEF EngineThread, IdInv
  <1>2. CASE UNCHANGED vars
    BY <1>2, SameLabels, LabelsShrink DEF vars, uiVars, engineVars, pendVars, sockVars, recvVars,
       readVars, bikeVars, IdInv, AnswerIsOwn, IdsCounted, Kinds
  <1>3. QED
    BY <1>1, <1>2, UiIds, ReceiverIds, BikeIds, ReaderIds DEF Next

\* Command.cpp:60-126: whatever is late, lost, repeated by a monitor or left by an
\* earlier session, a command is answered with its own result or with none, as
\* long as the ids do not come round: every text that is taken uses one of the
\* Ids, and what PhoneWrap shows needs more texts than that.
THEOREM AnswersOwned == ASSUME MaxTexts <= Ids PROVE Spec => []AnswersAreOwn
  <1>1. IInv /\ IdInv => AnswersAreOwn
    <2> SUFFICES ASSUME IInv, IdInv PROVE TypeOK /\ AnswerIsOwn
      BY DEF AnswersAreOwn
    <2>1. command \in [no : 0..MaxTexts, id : 0..Ids] /\ counter \in 0..Ids
      <3>1. counter <= sent /\ sent <= MaxTexts /\ counter \in Nat /\ sent \in Nat
        <4>1. Len(inbound) \in Nat
          BY DEF IInv, Types
        <4>2. QED
          BY <4>1, PhoneAssumption DEF IInv, Types, IdInv, IdsCounted
      <3>2. QED
        BY <3>1, PhoneAssumption DEF IInv, Types, Command, IdInv, IdsCounted
    <2>2. DOMAIN pending \subseteq 1..Ids
      BY <2>1, PhoneAssumption DEF IdInv, IdsCounted
    <2>3. mixed = FALSE
      BY DEF IdInv, AnswerIsOwn
    <2>4. QED
      BY <2>1, <2>2, <2>3 DEF TypeOK, IInv, Types, Receives, IdInv, Kinds, IdsCounted, EngineStates,
         Notices, AnswerIsOwn
  <1>2. Init => IdInv
    BY InitIds
  <1>3. IInv /\ IdInv /\ [Next]_vars => IdInv'
    BY StepIds
  <1>4. QED
    BY <1>1, <1>2, <1>3, Invariance, PTL DEF Spec
=============================================================================
