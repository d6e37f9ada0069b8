-------------------------- MODULE WebTransportProofs --------------------------
(***************************************************************************)
(* Theorems about the WebSocket endpoint, for any set of descriptors, any  *)
(* size of the client table, any clock and any pause of the main loop.     *)
(***************************************************************************)
EXTENDS WebTransport, TLAPS

\* No descriptor has two rows, and each row is that of an open WebSocket.
Once(table) == \A r, q \in Rows : table[r] # None /\ table[q] = table[r] => q = r
Lists(table, s) == \A r \in Rows : table[r] # None => s[table[r]] = "ws"

\* What a pass, a session or a command that ends relies on.  The flag is the
\* table's, a session needs the server, and the server its set-up.
Table ==
  /\ Lists(wsClientFds, session) /\ Once(wsClientFds)
  /\ connected <=> \E r \in Rows : wsClientFds[r] # None
  /\ server => initialized
  /\ ~server => \A fd \in Fds : session[fd] = "closed"

IInv == TypeOK /\ Table

webTypes ==
  /\ session \in [Fds -> {"closed", "page", "ws"}]
  /\ wsClientFds \in [Rows -> Fds \cup {None}]
  /\ connected \in BOOLEAN
  /\ conn \in [Fds -> 0 .. MaxConns] /\ opened \in 0 .. MaxConns

castTypes ==
  /\ delay \in 0 .. Wrap - 1 /\ udp \in BOOLEAN
  /\ quiet \in Nat /\ age \in 0 .. 2

\* The clock stays within its period.
LEMMA ClockRange == \A t \in Nat : t % Wrap \in 0 .. Wrap - 1
  BY WebAssumption

LEMMA CastTypes == TypeOK => castTypes
  BY DEF TypeOK, castTypes

\* Both forms of the broadcast leave its state within its types.
LEMMA RestartTypes ==
  ASSUME castTypes, Restart
  PROVE  castTypes'
  BY DEF castTypes, Restart

LEMMA BroadcastTypes ==
  ASSUME castTypes, time \in 0 .. Wrap - 1, MaybeBroadcast
  PROVE  castTypes'
  <1>1. CASE Broadcast
    <2>1. NextDue \in 0 .. Wrap - 1
      <3>1. time + 2 \in Nat
        BY WebAssumption
      <3>2. QED
        BY <3>1, ClockRange DEF NextDue
    <2>2. QED
      BY <1>1, <2>1 DEF castTypes, Broadcast
  <1>2. CASE UNCHANGED castVars
    BY <1>2 DEF castTypes, castVars
  <1>3. QED
    BY <1>1, <1>2 DEF MaybeBroadcast

\* wsClientAdd: the descriptor gets one empty row, or the table is full.
LEMMA AddOne ==
  ASSUME NEW fd \in Fds, NEW table \in wsClientAdd(fd),
         wsClientFds \in [Rows -> Fds \cup {None}]
  PROVE  \/ table = wsClientFds /\ \A r \in Rows : wsClientFds[r] # None
         \/ \E r \in Rows : wsClientFds[r] = None /\ table = [wsClientFds EXCEPT ![r] = fd]
  BY DEF wsClientAdd, Empty

LEMMA SomeRow == 1 \in Rows
  BY WebAssumption DEF Rows

\* A table lists somebody exactly when one of its rows is taken.
LEMMA SomeClient ==
  ASSUME NEW table \in [Rows -> Fds \cup {None}]
  PROVE  Clients(table) # {} <=> \E r \in Rows : table[r] # None
  BY DEF Clients

LEMMA InitInv == Init => IInv
  <1> SUFFICES ASSUME Init PROVE IInv
    OBVIOUS
  <1> USE WebAssumption
  <1>1. order \in [fd : Fds \cup {None}, conn : 0 .. MaxConns]
    BY DEF Init, NoOrder
  <1>2. answered \in (0 .. MaxConns) \X (0 .. MaxConns) /\ conn \in [Fds -> 0 .. MaxConns]
    BY DEF Init
  <1>3. delay \in 0 .. Wrap - 1 /\ time \in 0 .. Wrap - 1 /\ opened \in 0 .. MaxConns
    BY DEF Init
  <1>4. wsClientFds \in [Rows -> Fds \cup {None}]
    BY DEF Init
  <1>5. session \in [Fds -> {"closed", "page", "ws"}]
    BY DEF Init
  <1>6. /\ wifiGotIp \in BOOLEAN /\ initialized \in BOOLEAN /\ server \in BOOLEAN
        /\ refused \in BOOLEAN /\ connected \in BOOLEAN /\ udp \in BOOLEAN /\ asleep \in BOOLEAN
    BY DEF Init
  <1>7. sending \in Fds \cup {None} /\ quiet \in Nat /\ age \in 0 .. 2
    BY DEF Init
  <1>8. TypeOK
    BY <1>1, <1>2, <1>3, <1>4, <1>5, <1>6, <1>7 DEF TypeOK
  <1>9. Table
    BY DEF Init, Table, Lists, Once
  <1>10. QED
    BY <1>8, <1>9 DEF IInv

\* The three steps of the server's task.
LEMMA AcceptInv ==
  ASSUME webTypes, Table, NEW fd \in Fds, Accept(fd),
         UNCHANGED <<server, initialized>>
  PROVE  webTypes' /\ Table'
  <1> USE WebAssumption DEF Accept
  <1>1. webTypes'
    BY DEF webTypes
  <1>2. Lists(wsClientFds, session)'
    BY DEF Lists, Table, webTypes
  <1>3. Once(wsClientFds)' /\ (connected <=> \E r \in Rows : wsClientFds[r] # None)'
    BY DEF Once, Table
  <1>4. QED
    BY <1>1, <1>2, <1>3 DEF Table

LEMMA HandshakeInv ==
  ASSUME webTypes, Table, NEW fd \in Fds, Handshake(fd),
         UNCHANGED <<server, initialized>>
  PROVE  webTypes' /\ Table'
  <1> USE DEF Handshake
  <1>0. \A r \in Rows : wsClientFds[r] # fd
    BY WebAssumption DEF Table, Lists
  <1>1. CASE wsClientFds' = wsClientFds /\ \A r \in Rows : wsClientFds[r] # None
    <2>1. webTypes'
      BY <1>1 DEF webTypes
    <2>2. Lists(wsClientFds, session)' /\ Once(wsClientFds)'
      BY <1>0, <1>1 DEF Lists, Once, Table, webTypes
    <2>3. QED
      BY <1>1, <2>1, <2>2, SomeRow DEF Table
  <1>2. CASE \E r \in Rows : wsClientFds[r] = None
                             /\ wsClientFds' = [wsClientFds EXCEPT ![r] = fd]
    <2> PICK r \in Rows : wsClientFds[r] = None
                          /\ wsClientFds' = [wsClientFds EXCEPT ![r] = fd]
      BY <1>2
    <2>1. webTypes'
      BY DEF webTypes
    <2>2. \A q \in Rows : wsClientFds'[q] = IF q = r THEN fd ELSE wsClientFds[q]
      BY DEF webTypes
    <2>3. Lists(wsClientFds, session)'
      BY <2>2, <1>0 DEF Lists, Table, webTypes
    <2>4. Once(wsClientFds)'
      BY <2>2, <1>0 DEF Once, Table
    <2>5. fd # None
      BY WebAssumption
    <2>6. QED
      BY <2>1, <2>2, <2>3, <2>4, <2>5 DEF Table
  <1>3. QED
    BY <1>1, <1>2, AddOne DEF webTypes

LEMMA CloseInv ==
  ASSUME webTypes, Table, NEW fd \in Fds, wsCloseHandler(fd),
         UNCHANGED <<server, initialized>>
  PROVE  webTypes' /\ Table'
  <1> USE DEF wsCloseHandler
  <1>0. \A r \in Rows : wsClientFds'[r] = IF wsClientFds[r] = fd THEN None ELSE wsClientFds[r]
    BY DEF wsClientRemove
  <1>1. wsClientFds' \in [Rows -> Fds \cup {None}]
    BY DEF wsClientRemove, webTypes
  <1>2. webTypes'
    BY <1>1 DEF webTypes
  <1>3. Lists(wsClientFds, session)'
    BY <1>0 DEF Lists, Table, webTypes
  <1>4. Once(wsClientFds)'
    BY <1>0 DEF Once, Table
  <1>5. (connected <=> \E r \in Rows : wsClientFds[r] # None)'
    BY <1>0, <1>1, SomeClient DEF Table
  <1>6. QED
    BY <1>2, <1>3, <1>4, <1>5 DEF Table

LEMMA SessionsInv == IInv /\ Sessions => IInv'
  <1> SUFFICES ASSUME IInv, Sessions PROVE IInv'
    OBVIOUS
  <1>1. webTypes /\ Table /\ castTypes
    BY CastTypes DEF IInv, TypeOK, webTypes
  <1>2. UNCHANGED <<server, initialized>>
    BY DEF Sessions
  <1>3. PICK fd \in Fds : Accept(fd) \/ Handshake(fd) \/ wsCloseHandler(fd)
    BY DEF Sessions
  <1>4. webTypes' /\ Table'
    BY <1>1, <1>2, <1>3, AcceptInv, HandshakeInv, CloseInv
  <1>5. castTypes'
    BY <1>1, RestartTypes DEF Sessions, castVars, castTypes
  <1>6. TypeOK'
    BY <1>4, <1>5 DEF IInv, TypeOK, Sessions, sendVars, webTypes, castTypes
  <1>7. QED
    BY <1>4, <1>6 DEF IInv

\* httpd_stop empties the table, and the flag with it.
LEMMA CleanupInv ==
  ASSUME webTypes, Table, cleanup
  PROVE  /\ webTypes' /\ ~connected'
         /\ \A r \in Rows : wsClientFds'[r] = None
         /\ \A fd \in Fds : session'[fd] = "closed"
         /\ ~server'
  <1> USE DEF cleanup
  <1>1. Clients(wsClientFds) \ {fd \in Fds : session[fd] # "closed"} = {}
    BY DEF Clients, Table, Lists, webTypes
  <1>2. CASE \E fd \in Fds : session[fd] # "closed"
    BY <1>1, <1>2 DEF webTypes
  <1>3. CASE ~ \E fd \in Fds : session[fd] # "closed"
    <2>1. ~connected
      BY <1>3 DEF Table, Lists, webTypes
    <2>2. QED
      BY <2>1 DEF webTypes
  <1>4. QED
    BY <1>2, <1>3

LEMMA RunDownInv ==
  ASSUME webTypes, castTypes, Table, server \in BOOLEAN, RunDown
  PROVE  webTypes' /\ castTypes' /\ Table' /\ server' \in BOOLEAN
  <1> USE DEF RunDown
  <1>1. CASE initialized
    <2>1. castTypes'
      BY <1>1 DEF cleanup, castTypes
    <2>2. Table'
      BY <1>1, CleanupInv DEF Table, Lists, Once
    <2>3. server' \in BOOLEAN
      BY <1>1 DEF cleanup
    <2>4. QED
      BY <1>1, <2>1, <2>2, <2>3, CleanupInv
  <1>2. CASE ~initialized
    <2>1. UNCHANGED <<server, webVars, castVars>>
      BY <1>2
    <2>2. webTypes'
      BY <2>1 DEF webVars, webTypes
    <2>3. castTypes'
      BY <2>1 DEF castVars, castTypes
    <2>4. Table'
      BY <1>2, <2>1 DEF webVars, Table, Lists, Once
    <2>5. QED
      BY <2>1, <2>2, <2>3, <2>4
  <1>3. QED
    BY <1>1, <1>2

LEMMA RunUpInv ==
  ASSUME webTypes, castTypes, Table, server \in BOOLEAN, time \in 0 .. Wrap - 1, RunUp
  PROVE  webTypes' /\ castTypes' /\ Table' /\ server' \in BOOLEAN
  <1>1. castTypes'
    BY BroadcastTypes DEF RunUp
  <1>2. webTypes'
    BY DEF RunUp, webVars, webTypes
  <1>3. Table' /\ server' \in BOOLEAN
    BY DEF RunUp, StartServer, webVars, Table, Lists, Once
  <1>4. QED
    BY <1>1, <1>2, <1>3

LEMMA runInv == IInv /\ run => IInv'
  <1> SUFFICES ASSUME IInv, run PROVE IInv'
    OBVIOUS
  <1>1. /\ webTypes /\ castTypes /\ Table /\ server \in BOOLEAN
        /\ time \in 0 .. Wrap - 1
    BY CastTypes DEF IInv, TypeOK, webTypes
  <1>2. webTypes' /\ castTypes' /\ Table' /\ server' \in BOOLEAN
    BY <1>1, RunDownInv, RunUpInv DEF run
  <1>3. initialized' \in BOOLEAN /\ refused' \in BOOLEAN
    BY DEF run, RunDown, RunUp, StartServer, IInv, TypeOK
  <1>4. TypeOK'
    BY <1>2, <1>3 DEF IInv, TypeOK, run, sendVars, webTypes, castTypes
  <1>5. QED
    BY <1>2, <1>4 DEF IInv

\* The other steps leave the table, the sessions and the server alone.
LEMMA TableStays ==
  ASSUME Table, UNCHANGED <<server, initialized, webVars>>
  PROVE  Table'
  BY DEF Table, Lists, Once, webVars

LEMMA SleepType == TypeOK /\ Sleep => TypeOK'
  <1> SUFFICES ASSUME TypeOK, Sleep PROVE TypeOK'
    OBVIOUS
  <1>1. PICK d \in 1 .. MaxPause :
          /\ time' = (time + d) % Wrap
          /\ quiet' = IF wifiGotIp /\ ~connected /\ quiet <= 2 * MaxPause + 2
                      THEN quiet + d ELSE quiet
          /\ age' = IF age + d > 2 THEN 2 ELSE age + d
    BY DEF Sleep
  <1>2. time + d \in Nat
    BY WebAssumption DEF TypeOK
  <1>3. time' \in 0 .. Wrap - 1
    BY <1>1, <1>2, ClockRange
  <1>4. quiet' \in Nat /\ age' \in 0 .. 2
    BY <1>1, WebAssumption DEF TypeOK
  <1>5. QED
    BY <1>3, <1>4 DEF TypeOK, Sleep, webVars, sendVars

LEMMA AnswerType == TypeOK /\ (wsClientFind \/ sendResult) => TypeOK'
  <1> SUFFICES ASSUME TypeOK, wsClientFind \/ sendResult PROVE TypeOK'
    OBVIOUS
  <1>0. NoOrder \in [fd : Fds \cup {None}, conn : 0 .. MaxConns]
    BY WebAssumption DEF NoOrder
  <1>1. CASE wsClientFind
    <2>1. sending' \in Fds \cup {None} /\ order' \in [fd : Fds \cup {None}, conn : 0 .. MaxConns]
      BY <1>0, <1>1 DEF wsClientFind, TypeOK
    <2>2. QED
      BY <1>1, <2>1 DEF wsClientFind, TypeOK, webVars, castVars
  <1>2. CASE sendResult
    <2>1. conn[sending] \in 0 .. MaxConns
      BY <1>2 DEF sendResult, TypeOK
    <2>2. answered' \in (0 .. MaxConns) \X (0 .. MaxConns)
      BY <1>2, <2>1 DEF sendResult, TypeOK
    <2>3. QED
      BY <1>0, <1>2, <2>2 DEF sendResult, TypeOK, webVars, castVars
  <1>3. QED
    BY <1>1, <1>2

LEMMA StepInv == IInv /\ [Next]_vars => IInv'
  <1> SUFFICES ASSUME IInv, [Next]_vars PROVE IInv'
    OBVIOUS
  <1> USE DEF IInv
  <1>1. CASE wifiEventHandler
    <2>1. TypeOK'
      BY <1>1 DEF wifiEventHandler, Restart, TypeOK, webVars, sendVars
    <2>2. QED
      BY <1>1, <2>1, TableStays DEF wifiEventHandler
  <1>2. CASE Sessions
    BY <1>2, SessionsInv
  <1>3. ASSUME NEW fd \in Fds, onEvent(fd) PROVE IInv'
    <2>1. TypeOK'
      BY <1>3 DEF onEvent, TypeOK, webVars, castVars
    <2>2. QED
      BY <1>3, <2>1, TableStays DEF onEvent
  <1>4. CASE run
    BY <1>4, runInv
  <1>5. CASE wsClientFind \/ sendResult
    BY <1>5, AnswerType, TableStays DEF wsClientFind, sendResult
  <1>6. CASE Sleep
    BY <1>6, SleepType, TableStays DEF Sleep
  <1>7. CASE UNCHANGED vars
    <2>1. TypeOK'
      BY <1>7 DEF vars, TypeOK, webVars, castVars, sendVars
    <2>2. QED
      BY <1>7, <2>1, TableStays DEF vars
  <1>8. QED
    BY <1>1, <1>2, <1>3, <1>4, <1>5, <1>6, <1>7 DEF Next, MainLoop

LEMMA Invariance == Spec => []IInv
  BY InitInv, StepInv, PTL DEF Spec

\* Every variable of the endpoint stays within its type, the times within the
\* period of eccles_millis().
THEOREM TypeCorrect == Spec => []TypeOK
  <1>1. IInv => TypeOK
    BY DEF IInv
  <1>2. QED
    BY <1>1, Invariance, PTL

\* Transport.cpp:38-66: whatever the server's task, the event task and the main
\* task interleave, and however many clients are turned away, each row is that
\* of one open WebSocket, and the flag tells whether there is a row taken.
THEOREM TableIsRight == Spec => []TableTracksClients
  <1>1. IInv => TableTracksClients
    <2> SUFFICES ASSUME IInv PROVE TableTracksClients
      OBVIOUS
    <2>1. connected <=> Clients(wsClientFds) # {}
      BY SomeClient DEF IInv, TypeOK, Table
    <2>2. ASSUME NEW r \in Rows, wsClientFds[r] # None
          PROVE  /\ server /\ session[wsClientFds[r]] = "ws"
                 /\ \A q \in Rows : wsClientFds[q] = wsClientFds[r] => q = r
      BY <2>2 DEF IInv, TypeOK, Table, Lists, Once
    <2>3. QED
      BY <2>1, <2>2 DEF TableTracksClients
  <1>2. QED
    BY <1>1, Invariance, PTL

\* Transport.cpp:38-53: nothing but its own close or the loss of the access
\* point takes the row of a client; a full table refuses the newcomer.
THEOREM RowsAreKept == Spec => ClientsKept
  <1> DEFINE Kept == \A fd \in Clients(wsClientFds) :
                       session'[fd] = "ws" => fd \in Clients(wsClientFds')
  <1>1. IInv /\ [Next]_vars => [Kept]_vars
    <2> SUFFICES ASSUME IInv, Next, NEW fd \in Clients(wsClientFds), session'[fd] = "ws"
                 PROVE  fd \in Clients(wsClientFds')
      OBVIOUS
    <2>1. PICK r \in Rows : wsClientFds[r] = fd /\ fd # None
      BY DEF Clients
    <2>2. wsClientFds \in [Rows -> Fds \cup {None}] /\ fd \in Fds
      BY <2>1 DEF IInv, TypeOK
    <2> SUFFICES wsClientFds'[r] = fd
      BY <2>1 DEF Clients
    <2>3. CASE UNCHANGED webVars
      BY <2>1, <2>3 DEF webVars
    <2>4. ASSUME NEW f \in Fds, Handshake(f) PROVE wsClientFds'[r] = fd
      BY <2>1, <2>2, <2>4, AddOne DEF Handshake
    <2>5. ASSUME NEW f \in Fds, wsCloseHandler(f) PROVE wsClientFds'[r] = fd
      <3>1. f # fd
        BY <2>5, <2>2 DEF wsCloseHandler, IInv, TypeOK
      <3>2. QED
        BY <2>1, <2>5, <3>1 DEF wsCloseHandler, wsClientRemove
    <2>6. CASE Sessions
      BY <2>1, <2>4, <2>5, <2>6 DEF Sessions, Accept
    <2>7. CASE run
      <3>1. ~cleanup
        BY <2>2 DEF cleanup
      <3>2. QED
        BY <2>3, <2>7, <3>1 DEF run, RunDown, RunUp
    <2>8. QED
      BY <2>3, <2>6, <2>7
         DEF Next, MainLoop, wifiEventHandler, onEvent, wsClientFind, sendResult, Sleep
  <1>2. QED
    BY <1>1, Invariance, PTL DEF Spec, ClientsKept
-----------------------------------------------------------------------------
(* When our address is heard.                                                *)

\* A pause is shorter than the period of the clock (49 days): across more, how
\* long ago something was due cannot be told.
ShortPauses == MaxPause + 1 < Wrap

Wanted == wifiGotIp /\ ~connected

\* A broadcast that is not due yet was due at most a half second ago: it becomes
\* due in one pause or two, and the pass after that sends it.
Heard ==
  /\ quiet <= 2 * MaxPause + 1
  /\ Wanted /\ Since(delay) = 0 => quiet <= MaxPause
  /\ Wanted /\ Since(delay) = 1 => quiet <= MaxPause + 1
  /\ Wanted /\ asleep /\ Since(delay) >= 2 => quiet = 0

LEMMA Below == \A x \in 0 .. Wrap - 1 : x % Wrap = x
  BY WebAssumption

LEMMA Around == \A x \in Wrap .. 2 * Wrap - 1 : x % Wrap = x - Wrap
  BY WebAssumption

\* Since measures forward from t, once around the clock.
LEMMA SinceIs ==
  ASSUME NEW a \in 0 .. Wrap - 1, NEW b \in 0 .. Wrap - 1
  PROVE  (a + Wrap - b) % Wrap = IF b <= a THEN a - b ELSE a + Wrap - b
  <1>1. CASE b <= a
    <2>1. a + Wrap - b \in Wrap .. 2 * Wrap - 1 /\ a + Wrap - b - Wrap = a - b
      BY <1>1, WebAssumption
    <2>2. (a + Wrap - b) % Wrap = (a + Wrap - b) - Wrap
      BY <2>1, Around
    <2>3. QED
      BY <1>1, <2>1, <2>2, WebAssumption
  <1>2. CASE ~(b <= a)
    <2>1. a + Wrap - b \in 0 .. Wrap - 1
      BY <1>2, WebAssumption
    <2>2. QED
      BY <1>2, <2>1, Below
  <1>3. QED
    BY <1>1, <1>2

\* A pause shorter than the period passes on the clock as it is.
LEMMA ClockGoes ==
  ASSUME NEW a \in 0 .. Wrap - 1, NEW d \in 1 .. Wrap - 2
  PROVE  (a + d) % Wrap = IF a + d < Wrap THEN a + d ELSE a + d - Wrap
  <1>1. CASE a + d < Wrap
    BY <1>1, Below, WebAssumption
  <1>2. CASE ~(a + d < Wrap)
    <2>1. a + d \in Wrap .. 2 * Wrap - 1
      BY <1>2, WebAssumption
    <2>2. (a + d) % Wrap = (a + d) - Wrap
      BY <2>1, Around
    <2>3. QED
      BY <1>2, <2>2, WebAssumption
  <1>3. QED
    BY <1>1, <1>2

\* What was due less than a second ago is due after one pause or two.
LEMMA BecomesDue ==
  ASSUME ShortPauses, TypeOK, NEW d \in 1 .. MaxPause,
         time' = (time + d) % Wrap, delay' = delay
  PROVE  /\ Since(delay) = 0 /\ d = 1 => Since(delay)' = 1
         /\ Since(delay) = 0 /\ d > 1 => Since(delay)' >= 2
         /\ Since(delay) = 1 => Since(delay)' >= 2
  <1>1. time \in 0 .. Wrap - 1 /\ delay \in 0 .. Wrap - 1 /\ d \in 1 .. Wrap - 2
    BY WebAssumption DEF TypeOK, ShortPauses
  <1>2. time' = IF time + d < Wrap THEN time + d ELSE time + d - Wrap
    BY <1>1, ClockGoes
  <1>3. time' \in 0 .. Wrap - 1
    BY <1>1, <1>2, WebAssumption
  <1>4. Since(delay) = IF delay <= time THEN time - delay ELSE time + Wrap - delay
    BY <1>1, SinceIs DEF Since
  <1>5. Since(delay)' = IF delay <= time' THEN time' - delay ELSE time' + Wrap - delay
    BY <1>1, <1>3, SinceIs DEF Since
  <1>6. QED
    BY <1>1, <1>2, <1>4, <1>5, WebAssumption

LEMMA SinceRange ==
  ASSUME TypeOK
  PROVE  Since(delay) \in Nat /\ (~Due => Since(delay) \in {0, 1})
  <1>1. time + Wrap - delay \in Nat
    BY WebAssumption DEF TypeOK
  <1>2. Since(delay) \in 0 .. Wrap - 1
    BY <1>1, ClockRange DEF Since
  <1>3. QED
    BY <1>2, WebAssumption DEF Due

\* From now on, or from a broadcast on, nothing has been waited for.
LEMMA FromNow ==
  ASSUME quiet' = 0
  PROVE  Heard'
  BY WebAssumption DEF Heard

\* A step that leaves the clock and the broadcast alone, and wants it no more
\* than before.
LEMMA HeardStays ==
  ASSUME Heard, UNCHANGED <<delay, time, quiet>>, Wanted' => Wanted, asleep' => asleep
  PROVE  Heard'
  BY DEF Heard, Since

LEMMA SleepHeard ==
  ASSUME ShortPauses, TypeOK, Heard, Sleep
  PROVE  Heard'
  <1>1. PICK d \in 1 .. MaxPause :
          /\ time' = (time + d) % Wrap
          /\ quiet' = IF wifiGotIp /\ ~connected /\ quiet <= 2 * MaxPause + 2
                      THEN quiet + d ELSE quiet
    BY DEF Sleep
  <1>2. /\ delay' = delay /\ wifiGotIp' = wifiGotIp /\ connected' = connected
        /\ asleep /\ ~asleep'
    BY DEF Sleep, webVars
  <1>3. quiet \in Nat /\ Since(delay) \in Nat
    BY SinceRange DEF TypeOK
  <1>4. CASE ~Wanted
    BY <1>1, <1>2, <1>3, <1>4 DEF Heard, Wanted
  <1>5. CASE Wanted
    <2>1. quiet' = quiet + d
      BY <1>1, <1>3, <1>5, WebAssumption DEF Heard, Wanted
    <2>2. Since(delay) = 0 \/ Since(delay) = 1 \/ Since(delay) >= 2
      BY <1>3
    <2> HIDE DEF Since
    <2>3. CASE Since(delay) = 0
      <3>1. quiet <= MaxPause
        BY <1>5, <2>3 DEF Heard
      <3>2. (d = 1 /\ Since(delay)' = 1) \/ Since(delay)' >= 2
        BY <1>1, <1>2, <2>3, BecomesDue
      <3>3. QED
        BY <1>2, <1>3, <2>1, <3>1, <3>2, WebAssumption DEF Heard
    <2>4. CASE Since(delay) = 1
      <3>1. quiet <= MaxPause + 1
        BY <1>5, <2>4 DEF Heard
      <3>2. Since(delay)' >= 2
        BY <1>1, <1>2, <2>4, BecomesDue
      <3>3. QED
        BY <1>2, <1>3, <2>1, <3>1, <3>2, WebAssumption DEF Heard
    <2>5. CASE Since(delay) >= 2
      <3>1. quiet = 0
        BY <1>2, <1>5, <2>5 DEF Heard
      <3>2. QED
        BY <1>2, <2>1, <3>1, WebAssumption DEF Heard
    <2>6. QED
      BY <2>2, <2>3, <2>4, <2>5
  <1>6. QED
    BY <1>4, <1>5

LEMMA RunHeard ==
  ASSUME TypeOK, Heard, run
  PROVE  Heard'
  <1>1. time' = time /\ wifiGotIp' = wifiGotIp /\ quiet \in Nat
    BY DEF run, TypeOK
  <1>2. CASE RunDown
    <2>1. quiet' = quiet
      BY <1>2 DEF RunDown, cleanup, castVars
    <2>2. ~Wanted'
      BY <1>1, <1>2 DEF RunDown, Wanted
    <2>3. QED
      BY <2>1, <2>2 DEF Heard
  <1>3. CASE RunUp
    <2>1. CASE ~connected /\ Due
      BY <1>3, <2>1, FromNow DEF RunUp, MaybeBroadcast, Broadcast
    <2>2. CASE ~(~connected /\ Due)
      <3>1. UNCHANGED <<delay, quiet, connected>>
        BY <1>3, <2>2 DEF RunUp, MaybeBroadcast, castVars, webVars
      <3>2. Since(delay)' = Since(delay)
        BY <1>1, <3>1 DEF Since
      <3>3. ~Wanted \/ Since(delay) = 0 \/ Since(delay) = 1
        BY <2>2, SinceRange DEF Wanted
      <3> HIDE DEF Since
      <3>4. QED
        BY <1>1, <3>1, <3>2, <3>3 DEF Heard, Wanted
    <2>3. QED
      BY <2>1, <2>2
  <1>4. QED
    BY <1>2, <1>3 DEF run

LEMMA StepHeard == ShortPauses /\ IInv /\ Heard /\ [Next]_vars => Heard'
  <1> SUFFICES ASSUME ShortPauses, TypeOK, Heard, [Next]_vars PROVE Heard'
    BY DEF IInv
  <1>1. CASE wifiEventHandler
    BY <1>1, FromNow DEF wifiEventHandler, Restart
  <1>2. CASE Sessions
    <2>1. CASE connected' = connected
      BY <1>2, <2>1, HeardStays DEF Sessions, castVars, Wanted
    <2>2. CASE connected' # connected
      BY <1>2, <2>2, FromNow DEF Sessions, Restart
    <2>3. QED
      BY <2>1, <2>2
  <1>3. ASSUME NEW fd \in Fds, onEvent(fd) PROVE Heard'
    BY <1>3, HeardStays DEF onEvent, castVars, webVars, Wanted
  <1>4. CASE run
    BY <1>4, RunHeard
  <1>5. CASE wsClientFind \/ sendResult
    BY <1>5, HeardStays DEF wsClientFind, sendResult, castVars, webVars, Wanted
  <1>6. CASE Sleep
    BY <1>6, SleepHeard
  <1>7. CASE UNCHANGED vars
    BY <1>7, HeardStays DEF vars, castVars, webVars, Wanted
  <1>8. QED
    BY <1>1, <1>2, <1>3, <1>4, <1>5, <1>6, <1>7 DEF Next, MainLoop

\* Transport.cpp:318-330: with an address and no client, the phone hears from us
\* within two pauses of the main loop and a second, wherever the clock stands and
\* however often the clients and the access point come and go: the unsigned
\* difference is never taken for a time that has still to come.
THEOREM AddressHeard == ASSUME ShortPauses PROVE Spec => []AddressIsHeard
  <1>1. Init => Heard
    BY WebAssumption DEF Init, Heard, Wanted
  <1>2. Heard /\ IInv => AddressIsHeard
    BY WebAssumption DEF Heard, AddressIsHeard, IInv, TypeOK
  <1>3. IInv /\ Heard /\ [Next]_vars => Heard'
    BY StepHeard
  <1>4. QED
    BY <1>1, <1>2, <1>3, Invariance, PTL DEF Spec
=============================================================================
