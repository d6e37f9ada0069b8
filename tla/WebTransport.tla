----------------------------- MODULE WebTransport -----------------------------
(***************************************************************************)
(* The WebSocket endpoint of the firmware (Transport.cpp).                 *)
(*                                                                         *)
(* Three tasks meet here: the event task keeps wifiGotIp, the server's own *)
(* task opens and closes sessions and runs wsHandler and wsCloseHandler,   *)
(* and the main task runs WebTransport::run on every pass of its loop and  *)
(* sends results.  Sessions are named by their socket descriptors, which   *)
(* the network stack uses again.                                           *)
(*                                                                         *)
(* Time is in half seconds; eccles_millis() is cyclic with period Wrap.    *)
(***************************************************************************)
EXTENDS Naturals, FiniteSets

CONSTANTS
  Fds,            (* the descriptors of the server's sessions               *)
  MAX_WS_CLIENTS, (* the size of the client table (4)                       *)
  None,           (* no descriptor: -1 in the table                         *)
  Wrap,           (* the period of eccles_millis()                          *)
  MaxPause,       (* the longest time between two passes of the main loop   *)
  MaxConns,       (* bound: how many sessions are opened                    *)
  StartFails      (* whether httpd_start may fail                           *)

ASSUME WebAssumption ==
  /\ None \notin Fds /\ IsFiniteSet(Fds)
  /\ MAX_WS_CLIENTS \in Nat \ {0}
  /\ Wrap \in Nat /\ Wrap > 4
  /\ MaxPause \in Nat \ {0}
  /\ MaxConns \in Nat
  /\ StartFails \in BOOLEAN

Rows == 1 .. MAX_WS_CLIENTS

VARIABLES
  wifiGotIp,   \* the station has an address
  initialized, \* run() has set the server up since then
  server,      \* the server runs
  refused,     \* history: httpd_start has failed since run() last cleaned up
  session,     \* session[fd]: "closed", "page" for plain HTTP, or "ws"
  wsClientFds, \* the client table
  connected,   \* the flag "a client is connected"
  delay,       \* when the next broadcast of our address is due
  udp,         \* the broadcast socket is open
  time,        \* eccles_millis()
  asleep,      \* the main loop is between two passes
  conn,        \* history: the serial number of the session on each descriptor
  opened,      \* history: how many sessions were opened
  order,       \* a command to answer: its sender's descriptor, and session
  sending,     \* the descriptor wsClientFind has just returned
  answered,    \* history: <<who asked, who got the answer>> of the last one
  quiet,       \* history: how long a broadcast has been wanted and not sent
  age          \* history: time since the last broadcast (at most 2)

webVars  == <<session, wsClientFds, connected, conn, opened>>
castVars == <<delay, udp, quiet, age>>
sendVars == <<order, sending, answered>>
vars == <<wifiGotIp, initialized, server, refused, webVars, castVars, sendVars, time, asleep>>

NoOrder == [fd |-> None, conn |-> 0]

Init ==
  /\ wifiGotIp = FALSE /\ initialized = FALSE /\ server = FALSE /\ refused = FALSE
  /\ session = [fd \in Fds |-> "closed"]
  /\ wsClientFds = [r \in Rows |-> None]
  /\ connected = FALSE
  /\ delay = 2 /\ udp = FALSE
  /\ time = 0 /\ asleep = FALSE
  /\ conn = [fd \in Fds |-> 0] /\ opened = 0
  /\ order = NoOrder /\ sending = None /\ answered = <<0, 0>>
  /\ quiet = 0 /\ age = 2

-----------------------------------------------------------------------------
(* The event task: wifiEventHandler.                                         *)

\* The broadcast is wanted from now on, or not any more.
Restart == quiet' = 0 /\ UNCHANGED <<delay, udp, age>>

wifiEventHandler ==
  /\ wifiGotIp' = ~wifiGotIp
  /\ Restart
  /\ UNCHANGED <<initialized, server, refused, webVars, sendVars, time, asleep>>

-----------------------------------------------------------------------------
(* The client table.                                                         *)

Clients(table) == {table[r] : r \in Rows} \ {None}

Empty == {r \in Rows : wsClientFds[r] = None}

\* Mutant of wsClientAdd: a full table gives up its first row.
wsClientAddOver(fd) ==
  IF Empty = {} THEN {[wsClientFds EXCEPT ![1] = fd]}
  ELSE {[wsClientFds EXCEPT ![r] = fd] : r \in {q \in Empty : \A e \in Empty : q <= e}}

\* The first empty row takes the descriptor; a full table ignores it.
wsClientAdd(fd) ==
  IF Empty = {} THEN {wsClientFds}
  ELSE {[wsClientFds EXCEPT ![r] = fd] : r \in {q \in Empty : \A e \in Empty : q <= e}}

\* Mutant of wsClientRemove: rows are never freed.
wsClientRemoveNever(table, fd) == table

wsClientRemove(table, fd) == [r \in Rows |-> IF table[r] = fd THEN None ELSE table[r]]

-----------------------------------------------------------------------------
(* The server's task.                                                        *)

Accept(fd) ==
  /\ server /\ session[fd] = "closed" /\ opened < MaxConns
  /\ session' = [session EXCEPT ![fd] = "page"]
  /\ conn' = [conn EXCEPT ![fd] = opened + 1]
  /\ opened' = opened + 1
  /\ UNCHANGED <<wsClientFds, connected>>

\* wsHandler, GET: the handshake.
Handshake(fd) ==
  /\ server /\ session[fd] = "page"
  /\ session' = [session EXCEPT ![fd] = "ws"]
  /\ wsClientFds' \in wsClientAdd(fd)
  /\ connected' = TRUE
  /\ UNCHANGED <<conn, opened>>

\* wsCloseHandler, for a session of either kind.
wsCloseHandler(fd) ==
  /\ server /\ session[fd] # "closed"
  /\ session' = [session EXCEPT ![fd] = "closed"]
  /\ wsClientFds' = wsClientRemove(wsClientFds, fd)
  /\ connected' = (connected /\ Clients(wsClientFds') # {})
  /\ UNCHANGED <<conn, opened>>

Sessions ==
  /\ \E fd \in Fds : Accept(fd) \/ Handshake(fd) \/ wsCloseHandler(fd)
  /\ IF connected' = connected THEN UNCHANGED castVars ELSE Restart
  /\ UNCHANGED <<wifiGotIp, initialized, server, refused, sendVars, time, asleep>>

\* onEvent: a command that wants an answer, sent under the descriptor's name.
onEvent(fd) ==
  /\ server /\ session[fd] = "ws" /\ order = NoOrder
  /\ order' = [fd |-> fd, conn |-> conn[fd]]
  /\ UNCHANGED <<wifiGotIp, initialized, server, refused, webVars, castVars, sending,
                 answered, time, asleep>>

-----------------------------------------------------------------------------
(* The main task: WebTransport::run.                                         *)

Since(t) == (time + Wrap - t) % Wrap

\* Mutant of Due: signed arithmetic with the sides swapped.
DueNever == Since(delay) >= Wrap

\* t - delay >= 1000, without sign.
Due == Since(delay) >= 2

NextDue == (time + 2) % Wrap

\* broadcastIP, and the delay until the next one.  (Where it finds no address or
\* no socket it sends nothing and the delay is set all the same.)
Broadcast ==
  /\ delay' = NextDue
  /\ udp' = TRUE /\ quiet' = 0 /\ age' = 0

MaybeBroadcast ==
  IF ~connected /\ Due THEN Broadcast ELSE UNCHANGED castVars

\* cleanup: httpd_stop closes every session through wsCloseHandler and waits
\* for its task, then the table is reset.
cleanup ==
  /\ LET left == Clients(wsClientFds) \ {fd \in Fds : session[fd] # "closed"}
         any  == \E fd \in Fds : session[fd] # "closed"
     IN connected' = (connected /\ (any => left # {}))
  /\ session' = [fd \in Fds |-> "closed"]
  /\ wsClientFds' = [r \in Rows |-> None]
  /\ server' = FALSE
  /\ udp' = FALSE
  /\ UNCHANGED <<conn, opened, delay, quiet, age>>

\* Mutant of RunDown: the setup is not forgotten.
RunDownStuck ==
  /\ ~wifiGotIp
  /\ UNCHANGED initialized /\ refused' = FALSE
  /\ IF initialized THEN cleanup ELSE UNCHANGED <<server, webVars, castVars>>

RunDown ==
  /\ ~wifiGotIp
  /\ initialized' = FALSE /\ refused' = FALSE
  /\ IF initialized THEN cleanup ELSE UNCHANGED <<server, webVars, castVars>>

\* The server is set up once; a failure of httpd_start is not looked at again.
StartServer ==
  /\ initialized' = TRUE
  /\ IF initialized THEN UNCHANGED <<server, refused>>
     ELSE \/ server' = TRUE /\ UNCHANGED refused
          \/ StartFails /\ refused' = TRUE /\ UNCHANGED server

RunUp ==
  /\ wifiGotIp
  /\ MaybeBroadcast
  /\ StartServer
  /\ UNCHANGED webVars

run ==
  /\ ~asleep /\ sending = None
  /\ asleep' = TRUE
  /\ RunDown \/ RunUp
  /\ UNCHANGED <<wifiGotIp, sendVars, time>>

\* sendResult looks the descriptor up, then sends to whoever has it.
wsClientFind ==
  /\ ~asleep /\ order # NoOrder /\ sending = None
  /\ IF server /\ order.fd \in Clients(wsClientFds)
     THEN sending' = order.fd /\ UNCHANGED order
     ELSE order' = NoOrder /\ UNCHANGED sending
  /\ UNCHANGED <<wifiGotIp, initialized, server, refused, webVars, castVars, answered,
                 time, asleep>>

sendResult ==
  /\ sending # None
  /\ answered' = IF session[sending] = "closed" THEN answered
                 ELSE <<order.conn, conn[sending]>>
  /\ order' = NoOrder /\ sending' = None
  /\ UNCHANGED <<wifiGotIp, initialized, server, refused, webVars, castVars, time, asleep>>

\* The end of a pass: the rest of the loop and the sleep of PowerManager.
Sleep ==
  /\ asleep
  /\ asleep' = FALSE
  /\ \E d \in 1 .. MaxPause :
       /\ time' = (time + d) % Wrap
       /\ quiet' = IF wifiGotIp /\ ~connected /\ quiet <= 2 * MaxPause + 2
                   THEN quiet + d ELSE quiet
       /\ age' = IF age + d > 2 THEN 2 ELSE age + d
  /\ UNCHANGED <<wifiGotIp, initialized, server, refused, webVars, sendVars, delay, udp>>

MainLoop == run \/ wsClientFind \/ sendResult \/ Sleep

Next ==
  \/ wifiEventHandler
  \/ Sessions
  \/ \E fd \in Fds : onEvent(fd)
  \/ MainLoop

Spec == Init /\ [][Next]_vars

\* The main loop never stops.
FairSpec == Spec /\ WF_vars(MainLoop)

-----------------------------------------------------------------------------
(* Properties.                                                               *)

TypeOK ==
  /\ wifiGotIp \in BOOLEAN /\ initialized \in BOOLEAN
  /\ server \in BOOLEAN /\ refused \in BOOLEAN
  /\ session \in [Fds -> {"closed", "page", "ws"}]
  /\ wsClientFds \in [Rows -> Fds \cup {None}]
  /\ connected \in BOOLEAN
  /\ delay \in 0 .. Wrap - 1 /\ time \in 0 .. Wrap - 1
  /\ udp \in BOOLEAN /\ asleep \in BOOLEAN
  /\ conn \in [Fds -> 0 .. MaxConns] /\ opened \in 0 .. MaxConns
  /\ order \in [fd : Fds \cup {None}, conn : 0 .. MaxConns]
  /\ sending \in Fds \cup {None}
  /\ answered \in (0 .. MaxConns) \X (0 .. MaxConns)
  /\ quiet \in Nat /\ age \in 0 .. 2

\* Transport.cpp:55: the table's rows are freed when their client leaves, also
\* when the access point is lost: every descriptor in it is that of an open
\* WebSocket, in one row only, and the flag says whether there is one.
TableTracksClients ==
  /\ \A r \in Rows : wsClientFds[r] # None =>
       /\ server /\ session[wsClientFds[r]] = "ws"
       /\ \A q \in Rows : wsClientFds[q] = wsClientFds[r] => q = r
  /\ connected <=> Clients(wsClientFds) # {}

\* A client that has a row keeps it as long as its WebSocket is open: neither
\* newcomers, nor browsers that load the page, nor the loss of others take it.
ClientsKept ==
  [][\A fd \in Clients(wsClientFds) :
       session'[fd] = "ws" => fd \in Clients(wsClientFds')]_vars

\* With an address and no client, the phone hears our address again and again:
\* whatever the pauses of the main loop, and across the wrap of the clock, a
\* broadcast is never more than two pauses and a second late.
AddressIsHeard == quiet <= 2 * MaxPause + 2

\* When the access point stays, the server ends up running, however often it was
\* lost before, unless the one attempt to start it since then has failed.
ServerComesBack == <>[]wifiGotIp => <>[](server \/ refused)

-----------------------------------------------------------------------------
(* What the comments say and the code does not do.                           *)

\* Transport.h:42: isClientConnected() is "true while at least one websocket
\* client is open".
ConnectedWhileOpen == (\E fd \in Fds : session[fd] = "ws") => connected

\* Transport.cpp:324: "we broadcast our IP every seconds", one second after the
\* last time and not on every pass.
BroadcastSpaced == [][age' = 0 /\ age # 0 => age >= 2]_vars

\* Executor.h:64: "command results are sent back to whatever that sent the
\* command": an answer goes to the connection that asked.
AnswerToSender == answered[1] = answered[2]
=============================================================================
