----------------------------- MODULE MdnsSearch -----------------------------
(***************************************************************************)
(* The searches of the mDNS responder (components/mdns/mdns_querier.c and  *)
(* the part of mdns_receive.c that feeds them): an application allocates a *)
(* search and queues it; the timer sends it again and ends it, by actions  *)
(* of the same queue; the service task runs the actions and the packets.   *)
(* A search is known by its address, which malloc may hand out again.      *)
(***************************************************************************)
EXTENDS Integers, Sequences, SequencesExt

CONSTANTS
  Addrs,      \* addresses malloc may return for a search
  Callers,    \* tasks of the application
  Questions,  \* [type, service, key, timeout, max, blocking] the application may ask
  Packets,    \* [on, authoritative, records] that may arrive
  QueueLen,   \* capacity of the action queue (MDNS_ACTION_QUEUE_LEN)
  Again,      \* a search is sent again after this long (1000 ms)
  Clock,      \* the clock is read modulo this (2^32 ms)
  Browsed,    \* whether the service is browsed as well, so its PTRs go there
  RudeStop,   \* whether mdns_free may come with a full queue or a caller waiting
  MaxNow, MaxAsked, MaxPackets

MdnsSearchAssumption ==
  /\ QueueLen \in Nat \ {0} /\ Again \in Nat /\ Clock \in Nat \ {0}
  /\ MaxNow \in Nat /\ MaxAsked \in Nat /\ MaxPackets \in Nat
  /\ Browsed \in BOOLEAN /\ RudeStop \in BOOLEAN

None == "none"
Free == [state |-> "free", done |-> FALSE]

VARIABLES
  mem,      \* what each address holds
  list,     \* s_search_once, newest first
  queue,    \* s_action_queue
  caller,   \* what each task of the application is doing, with which address
  now,      \* the time, in periods of the timer
  server,   \* "up", "stopping" with the stop action queued, or "down"
  heard,    \* ghost: the packets that were parsed
  asked,    \* bound: searches made
  twice     \* ghost: a search was freed that was not allocated

vars == <<mem, list, queue, caller, now, server, heard, asked, twice>>

Idle == [doing |-> "idle", at |-> None]

Init ==
  /\ mem = [a \in Addrs |-> Free] /\ list = <<>> /\ queue = <<>>
  /\ caller = [c \in Callers |-> Idle]
  /\ now = 0 /\ server = "up" /\ heard = <<>> /\ asked = 0 /\ twice = FALSE

Room(q) == Len(q) < QueueLen
Listed(a, l) == \E i \in DOMAIN l : l[i] = a
Detach(l, a) == SelectSeq(l, LAMBDA b : b # a)
Allocated(a) == mem[a] # Free

Search(q) ==
  [state |-> "INIT", type |-> q.type, service |-> q.service, key |-> q.key, timeout |-> q.timeout,
   max |-> q.max, started |-> now % Clock, sent |-> 0, results |-> <<>>, done |-> FALSE, began |-> now]

New(c, q) ==
  /\ server = "up" \/ (server = "stopping" /\ (RudeStop \/ ~q.blocking))
  /\ caller[c] = Idle /\ asked < MaxAsked /\ now + q.timeout < MaxNow
  /\ asked' = asked + 1
  /\ \E a \in {b \in Addrs : ~Allocated(b)} :
       IF Room(queue)
       THEN /\ mem' = [mem EXCEPT ![a] = Search(q)]
            /\ queue' = Append(queue, [type |-> "ADD", at |-> a])
            /\ caller' = [caller EXCEPT ![c] = [doing |-> IF q.blocking THEN "waits" ELSE "holds", at |-> a]]
       ELSE UNCHANGED <<mem, queue, caller>>
  /\ UNCHANGED <<list, now, server, heard, twice>>

Over(s) == (now % Clock) > (s.started + s.timeout) % Clock
Due(s) == s.state = "INIT" \/ ((now % Clock) - s.sent) % Clock > Again

Post(acc, type, a) == Append(acc.queue, [type |-> type, at |-> a])

(* MUTANT of EndSoon: the search stays off when its end does not fit.      *)
EndSoonOff(acc, a) ==
  [mem |-> [acc.mem EXCEPT ![a].state = "OFF"],
   queue |-> IF Room(acc.queue) THEN Post(acc, "END", a) ELSE acc.queue]

EndSoon(acc, a) ==
  IF Room(acc.queue)
  THEN [mem |-> [acc.mem EXCEPT ![a].state = "OFF"], queue |-> Post(acc, "END", a)]
  ELSE [acc EXCEPT !.mem[a].state = "RUNNING"]

StartStop(acc, a) ==
  LET s == acc.mem[a]
  IN  CASE s.state = "OFF" -> acc
        [] s.state # "OFF" /\ Over(s) -> EndSoon(acc, a)
        [] s.state # "OFF" /\ ~Over(s) /\ Due(s) ->
             IF Room(acc.queue)
             THEN [mem |-> [acc.mem EXCEPT ![a].state = "RUNNING", ![a].sent = now % Clock],
                   queue |-> Post(acc, "SEND", a)]
             ELSE [acc EXCEPT !.mem[a].state = "RUNNING", !.mem[a].sent = (now - Again) % Clock]
        [] OTHER -> acc

Timer ==
  LET after == FoldLeft(StartStop, [mem |-> mem, queue |-> queue], list)
  IN  /\ server = "up"
      /\ mem' = after.mem /\ queue' = after.queue
      /\ UNCHANGED <<list, caller, now, server, heard, asked, twice>>

Tick ==
  /\ now < MaxNow /\ now' = now + 1
  /\ UNCHANGED <<mem, list, queue, caller, server, heard, asked, twice>>

Receive(p) ==
  /\ server # "down" /\ Len(heard) + Len(SelectSeq(queue, LAMBDA x : x.type = "RX")) < MaxPackets
  /\ Room(queue)
  /\ queue' = Append(queue, [type |-> "RX", packet |-> p])
  /\ UNCHANGED <<mem, list, caller, now, server, heard, asked, twice>>

Finish(acc, a) ==
  IF Listed(a, acc.list)
  THEN [mem |-> [acc.mem EXCEPT ![a].state = "OFF", ![a].done = TRUE], list |-> Detach(acc.list, a)]
  ELSE acc

Least(a, b) == IF a < b THEN a ELSE b

Spare(s) == s.max = 0 \/ Len(s.results) < s.max

Blank(on, ttl) == [on |-> on, inst |-> None, host |-> None, txt |-> None, addrs |-> {}, ttl |-> ttl]

AtFirst(s, Is(_), Change(_), otherwise) ==
  LET where == SelectInSeq(s.results, Is)
  IN  CASE where # 0 -> [s EXCEPT !.results[where] = Change(@)]
        [] where = 0 /\ Spare(s) -> [s EXCEPT !.results = otherwise \o @]
        [] OTHER -> s

AddPtr(s, inst, on, ttl) ==
  AtFirst(s, LAMBDA r : r.on = on /\ r.inst = inst, LAMBDA r : [r EXCEPT !.ttl = Least(@, ttl)],
          <<[Blank(on, ttl) EXCEPT !.inst = inst]>>)

OfInst(s, rec, on, Change(_)) ==
  LET is(r) == r.on = on /\ r.inst = rec.name
      known == SelectInSeq(s.results, is) # 0
  IN  AtFirst(IF known THEN s ELSE AddPtr(s, rec.name, on, rec.ttl), is, Change, <<>>)

AddSrv(s, rec, on) ==
  IF s.type = "PTR"
  THEN OfInst(s, rec, on, LAMBDA r : IF r.host = None THEN [r EXCEPT !.host = rec.value] ELSE r)
  ELSE AtFirst(s, LAMBDA r : r.on = on /\ r.host = rec.value, LAMBDA r : [r EXCEPT !.ttl = Least(@, rec.ttl)],
               <<[Blank(on, rec.ttl) EXCEPT !.inst = s.key, !.host = rec.value]>>)

AddText(s, rec, on) ==
  AtFirst(s, LAMBDA r : r.on = on,
          LAMBDA r : IF r.txt # None THEN r ELSE [r EXCEPT !.txt = rec.value, !.ttl = Least(@, rec.ttl)],
          <<[Blank(on, rec.ttl) EXCEPT !.txt = rec.value]>>)

AddTxt(s, rec, on) ==
  IF s.type = "PTR"
  THEN OfInst(s, rec, on, LAMBDA r : IF r.txt = None THEN [r EXCEPT !.txt = rec.value] ELSE r)
  ELSE AddText(s, rec, on)

(* MUTANT of SameHost: whatever host the address is for.                   *)
AnyHost(r, rec, on) == r.on = on

SameHost(r, rec, on) == r.on = on /\ r.host = rec.name

WithIp(addrs, ip) == addrs \cup {ip}

AddIp(s, rec, on) ==
  LET add(r) == [r EXCEPT !.addrs = WithIp(@, rec.value), !.ttl = Least(@, rec.ttl)]
  IN  IF s.type \in {"A", "ANY"}
      THEN AtFirst(s, LAMBDA r : r.on = on, add,
                   <<[Blank(on, rec.ttl) EXCEPT !.host = rec.name, !.addrs = {rec.value}]>>)
      ELSE AtFirst(s, LAMBDA r : SameHost(r, rec, on), add, <<>>)

Matches(s, rec, on) ==
  /\ s.state # "OFF"
  /\ CASE rec.type = "A" ->
            /\ ~(s.type = "ANY" /\ s.service) /\ s.type \in {"ANY", "A", "PTR", "SRV"}
            /\ IF s.type \in {"PTR", "SRV"}
               THEN \E i \in DOMAIN s.results : s.results[i].on = on /\ s.results[i].host = rec.name
               ELSE s.key = rec.name
       [] rec.type \in {"SRV", "TXT"} ->
            s.service /\ s.type \in {"ANY", rec.type, "PTR"} /\ (s.type # "PTR" => s.key = rec.name)
       [] rec.type = "PTR" -> s.type = "PTR"

Record(acc, rec, on) ==
  LET found == SelectSeq(acc.list, LAMBDA a : Matches(acc.mem[a], rec, on))
      into(a, Add(_)) == [acc EXCEPT !.mem[a] = Add(@)]
  IN  CASE found = <<>> -> acc
        [] found # <<>> /\ rec.type = "PTR" ->
             IF Browsed THEN acc ELSE into(Head(found), LAMBDA s : AddPtr(s, rec.value, on, rec.ttl))
        [] found # <<>> /\ rec.type = "SRV" -> into(Head(found), LAMBDA s : AddSrv(s, rec, on))
        [] found # <<>> /\ rec.type = "TXT" -> into(Head(found), LAMBDA s : AddTxt(s, rec, on))
        [] found # <<>> /\ rec.type = "A" ->
             [acc EXCEPT !.mem = [a \in Addrs |-> IF a \in Range(found) THEN AddIp(@[a], rec, on) ELSE @[a]]]

(* MUTANT of Done: a search for any number is full with what it has.       *)
DoneEarly(acc) ==
  FoldLeft(LAMBDA x, a : IF Len(x.mem[a].results) >= x.mem[a].max THEN Finish(x, a) ELSE x, acc, acc.list)

Done(acc) ==
  FoldLeft(LAMBDA x, a : IF x.mem[a].max # 0 /\ Len(x.mem[a].results) >= x.mem[a].max THEN Finish(x, a) ELSE x,
           acc, acc.list)

Parse(p) ==
  LET fed == FoldLeft(LAMBDA acc, rec : Record(acc, rec, p.on), [mem |-> mem, list |-> list], p.records)
  IN  IF p.authoritative THEN Done(fed) ELSE fed

Service ==
  /\ server # "down" /\ queue # <<>> /\ Head(queue).type # "STOP"
  /\ queue' = Tail(queue)
  /\ LET act == Head(queue)
         after == CASE act.type = "ADD" -> [mem |-> mem, list |-> <<act.at>> \o list]
                    [] act.type = "SEND" -> [mem |-> mem, list |-> list]
                    [] act.type = "END" -> Finish([mem |-> mem, list |-> list], act.at)
                    [] act.type = "RX" -> Parse(act.packet)
     IN  /\ mem' = after.mem /\ list' = after.list
         /\ heard' = IF act.type = "RX" THEN Append(heard, act.packet) ELSE heard
  /\ UNCHANGED <<caller, now, server, asked, twice>>

Answered(c) ==
  /\ caller[c].doing = "waits" /\ mem[caller[c].at].done
  /\ mem' = [mem EXCEPT ![caller[c].at] = Free]
  /\ caller' = [caller EXCEPT ![c] = Idle]
  /\ UNCHANGED <<list, queue, now, server, heard, asked, twice>>

GetResults(c) ==
  /\ server # "down" /\ caller[c].doing = "holds" /\ mem[caller[c].at].done
  /\ mem' = [mem EXCEPT ![caller[c].at].done = FALSE]
  /\ UNCHANGED <<list, queue, caller, now, server, heard, asked, twice>>

Delete(c) ==
  /\ server # "down" /\ caller[c].doing = "holds" /\ mem[caller[c].at].state = "OFF"
  /\ list' = Detach(list, caller[c].at)
  /\ mem' = [mem EXCEPT ![caller[c].at] = Free]
  /\ caller' = [caller EXCEPT ![c] = Idle]
  /\ UNCHANGED <<queue, now, server, heard, asked, twice>>

FreeIn(acc, a) ==
  IF acc.mem[a] = Free THEN [acc EXCEPT !.twice = TRUE] ELSE [acc EXCEPT !.mem[a] = Free]

(* MUTANT of Cleanup: a search that was never added is forgotten.          *)
CleanupListed(acc, act) ==
  IF act.type \in {"ADD", "SEND", "END"} /\ Listed(act.at, list) THEN FreeIn(acc, act.at) ELSE acc

Cleanup(acc, act) ==
  IF act.type = "ADD" \/ (act.type \in {"SEND", "END"} /\ Listed(act.at, list)) THEN FreeIn(acc, act.at) ELSE acc

FreeAll ==
  LET drained == FoldLeft(Cleanup, [mem |-> mem, twice |-> twice], queue)
      freed == FoldLeft(FreeIn, drained, list)
  IN  /\ mem' = freed.mem /\ twice' = freed.twice
      /\ queue' = <<>> /\ list' = <<>> /\ server' = "down"
      /\ UNCHANGED <<caller, now, heard, asked>>

Stop ==
  /\ server = "up"
  /\ RudeStop \/ (Room(queue) /\ \A c \in Callers : caller[c].doing # "waits")
  /\ IF Room(queue)
     THEN /\ queue' = Append(queue, [type |-> "STOP"]) /\ server' = "stopping"
          /\ UNCHANGED <<mem, list, caller, now, heard, asked, twice>>
     ELSE FreeAll

Stopped ==
  /\ server = "stopping" /\ Head(queue).type = "STOP"
  /\ FreeAll

Next ==
  \/ \E c \in Callers : \/ \E q \in Questions : New(c, q)
                        \/ Answered(c) \/ GetResults(c) \/ Delete(c)
  \/ \E p \in Packets : Receive(p)
  \/ Timer \/ Tick \/ Service \/ Stop \/ Stopped

Spec == Init /\ [][Next]_vars

(* A search ends only because its own time is over or it has the results   *)
(* it asked for; an action left in the queue by a search that was freed    *)
(* never ends the one that got its address (search_is_in_list).            *)
EndsByRight ==
  [][\A a \in Addrs :
       Allocated(a) /\ mem[a].state # "OFF" /\ Allocated(a)' /\ mem'[a].state = "OFF" =>
         \/ now > mem[a].began + mem[a].timeout
         \/ mem[a].max # 0 /\ Len(mem'[a].results) >= mem[a].max]_vars

(* A task that waits for a search has been answered, or something that     *)
(* will answer it is still in the queue or on the list, whether or not the *)
(* queue had room when the timer wanted to end it (query_start_stop).      *)
WaiterServed ==
  \A c \in Callers : caller[c].doing = "waits" /\ server # "down" =>
    LET a == caller[c].at
        queued(t) == \E i \in DOMAIN queue : queue[i].type = t /\ queue[i].at = a
    IN  \/ Allocated(a) /\ mem[a].done
        \/ queued("ADD")
        \/ Listed(a, list) /\ (mem[a].state # "OFF" \/ queued("END"))

(* What a search found was said by packets: an instance or host was named, *)
(* a host was given for that instance, an address for that host, on the    *)
(* interface of the result, and no more results than were asked for.       *)
ResultsAreHeard ==
  \A a \in Addrs : Allocated(a) =>
    LET s == mem[a]
        said(on, t, n, v) == \E i \in DOMAIN heard : heard[i].on = on /\
          \E j \in DOMAIN heard[i].records : LET rec == heard[i].records[j] IN rec.type = t /\ rec.name = n /\ rec.value = v
        named(on, n) == \E i \in DOMAIN heard : heard[i].on = on /\
          \E j \in DOMAIN heard[i].records : heard[i].records[j].name = n \/ heard[i].records[j].value = n
    IN  /\ s.max # 0 => Len(s.results) <= s.max
        /\ \A i \in DOMAIN s.results :
             LET r == s.results[i]
             IN  /\ r.inst # None => named(r.on, r.inst) /\ (r.host # None => said(r.on, "SRV", r.inst, r.host))
                 /\ \A ip \in r.addrs : r.host # None /\ said(r.on, "A", r.host, ip)

(* A program that stops the responder with no search waiting has every     *)
(* search freed, and freed once, but those that had ended, which their     *)
(* holder may still delete (mdns_free, ACTION_CLEANUP, query_free).        *)
StopFrees ==
  ~twice /\ (server = "down" => \A a \in Addrs : Allocated(a) => mem[a].state = "OFF")
=============================================================================
