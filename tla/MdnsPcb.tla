------------------------------ MODULE MdnsPcb ------------------------------
(***************************************************************************)
(* How the mDNS responder claims its names on one interface                *)
(* (components/mdns/mdns_pcb.c, the transmit queue of mdns_send.c, the     *)
(* services of mdns_responder.c, the conflicts of mdns_receive.c and the   *)
(* events of mdns_netif.c): on IPv4 and on IPv6 it probes three times,     *)
(* announces three times and answers; the timer queues the packets that    *)
(* are due and the service task sends them.                                *)
(***************************************************************************)
EXTENDS Integers, Sequences, SequencesExt, FiniteSetsExt

CONSTANTS
  Protocols,  \* the IP protocols of the interface: V4 and V6
  Services,   \* services the application may add
  Own,        \* those of them it gives an instance name
  Type,       \* the service type of each
  Answers,    \* how it answers: "response" to all, "unicast" to who asked
  QueueLen,   \* capacity of the action queue (MDNS_ACTION_QUEUE_LEN)
  FirstWaits, \* periods before a first probe (120 ms and a random part, or 1000)
  Crowded,    \* whether the queue is full when the timer comes and drained while it pushes
  Lossy,      \* whether an event of the network may find the queue full
  Calm,       \* whether names are disturbed only when no announcement is pending
  MaxOps, MaxNames

MdnsPcbAssumption ==
  /\ QueueLen \in Nat \ {0} /\ FirstWaits \subseteq Nat
  /\ Own \subseteq Services /\ DOMAIN Type = Services
  /\ Crowded \in BOOLEAN /\ Lossy \in BOOLEAN /\ Calm \in BOOLEAN
  /\ MaxOps \in Nat /\ MaxNames \in Nat

(* The states of a PCB, in the order of mdns_pcb_state_t.                  *)
Off == 0
Probe1 == 1
Probe3 == 3
Announce1 == 4
Announce3 == 6
Running == 7

(* Delays, in periods of the timer.                                        *)
ProbeWait == 1
AnnounceWait == 2

VARIABLES
  pcb,      \* s_pcbs of the interface
  tx,       \* s_tx_queue_head
  acts,     \* s_action_queue
  taken,    \* the action the service task took and has not run yet
  services, \* s_server->services, newest first
  host,     \* s_server->hostname: a number, 0 before it is set
  inst,     \* the instance name of each service, 0 if it has none
  link,     \* which protocols have an address
  probed,   \* ghost: the names probed three times on each PCB and not lost since
  told,     \* ghost: the names announced on each PCB as they are
  blurted,  \* ghost: a name was announced that had not been probed
  ops

vars == <<pcb, tx, acts, taken, services, host, inst, link, probed, told, blurted, ops>>
None == [type |-> "none"]
NoPcb == [ready |-> FALSE, state |-> Off, probes |-> <<>>, ip |-> FALSE, running |-> FALSE]

Probing(b) == b.state \in Probe1..Probe3
Announcing(b) == b.state \in Announce1..Announce3

(* Transport.cpp starts the responder and sets the host's name at once.    *)
Init ==
  /\ link \in [Protocols -> BOOLEAN]
  /\ pcb = [p \in Protocols |-> IF link[p] THEN [NoPcb EXCEPT !.ready = TRUE, !.state = Running] ELSE NoPcb]
  /\ tx = <<>> /\ acts = <<[type |-> "host", name |-> 1]>> /\ taken = None
  /\ services = <<>> /\ host = 0 /\ inst = [s \in Services |-> 0]
  /\ probed = [p \in Protocols |-> {}] /\ told = [p \in Protocols |-> {}] /\ blurted = FALSE
  /\ ops = 0

(***************************************************************************)
(* The functions below pass on the state of the responder they work on.    *)
(***************************************************************************)
Now == [pcb |-> pcb, tx |-> tx, services |-> services, host |-> host, inst |-> inst,
        probed |-> probed, told |-> told, blurted |-> blurted]

Becomes(c) ==
  /\ pcb' = c.pcb /\ tx' = c.tx
  /\ services' = c.services /\ host' = c.host /\ inst' = c.inst
  /\ probed' = c.probed /\ told' = c.told /\ blurted' = c.blurted

(* The names as the records are written with them, when a packet leaves.   *)
HostName(c) == <<"host", c.host>>
DefaultName(c, s) == <<s, "host", c.host>>
NameOf(c, s) == IF c.inst[s] # 0 THEN <<s, "own", c.inst[s]>> ELSE DefaultName(c, s)
Claims(c, ss, ip) == {NameOf(c, s) : s \in ss} \cup (IF ip THEN {HostName(c)} ELSE {})
Forget(f, gone) == [p \in Protocols |-> f[p] \ gone]

(***************************************************************************)
(* Packets (mdns_send.c)                                                   *)
(***************************************************************************)
(* malloc hands out the lowest free address again.                         *)
Fresh(t) == CHOOSE a \in 1..Len(t) + 1 :
              /\ \A i \in DOMAIN t : t[i].at # a
              /\ \A b \in 1..a - 1 : \E i \in DOMAIN t : t[i].at = b

Without(t, p) == SelectSeq(t, LAMBDA k : k.pcb # p)
NextPacket(t, p) == SelectInSeq(t, LAMBDA k : k.pcb = p)

SendAfter(t, k, wait) ==
  LET before == SelectSeq(t, LAMBDA x : x.wait <= wait)
  IN  before \o <<[k EXCEPT !.wait = wait]>> \o SubSeq(t, Len(before) + 1, Len(t))

(* where: in which section the host's addresses go.                        *)
Packet(t, p, kind, ss, where) ==
  [at |-> Fresh(t), pcb |-> p, kind |-> kind, asks |-> IF kind = "probe" THEN ss ELSE <<>>,
   about |-> Range(ss), host |-> where, wait |-> 0, queued |-> FALSE, times |-> 0]

Answered(c, k) == Claims(c, k.about, k.host # "no")

Dispatch(c, k) ==
  IF k.kind = "probe" THEN c
  ELSE [c EXCEPT !.told[k.pcb] = IF k.kind = "unicast" THEN @ ELSE @ \cup Answered(c, k),
                 !.blurted = @ \/ ~(Answered(c, k) \subseteq c.probed[k.pcb])]

(* The announcement has the addresses with every service.                  *)
AnnounceFrom(t, k) ==
  [Packet(t, k.pcb, "announce", <<>>, IF k.host = "no" /\ k.about = {} THEN "no" ELSE "answer")
     EXCEPT !.about = k.about]

Bye(c, ss, ip) ==
  IF c.host = 0 THEN c
  ELSE [c EXCEPT !.told = [p \in Protocols |->
         IF c.pcb[p].ready /\ c.pcb[p].state = Running THEN @[p] \ Claims(c, ss, ip) ELSE @[p]]]

(***************************************************************************)
(* mdns_pcb.c                                                              *)
(***************************************************************************)
(* MUTANT of ToProbe: what was being probed is dropped.                    *)
ToProbeNew(b, ss) == ss

ToProbe(b, ss) ==
  IF Probing(b) THEN SelectSeq(ss, LAMBDA s : ~Contains(b.probes, s)) \o b.probes ELSE ss

InitProbe(c, p, ss, ip, wait) ==
  LET b == c.pcb[p]
      t == Without(c.tx, p)
      all == ToProbe(b, ss)
      both == b.ip \/ ip
      k == Packet(t, p, "probe", all, IF both THEN "other" ELSE "no")
  IN  IF c.host = 0 THEN [c EXCEPT !.tx = t, !.pcb[p].state = Running]
      ELSE [c EXCEPT !.tx = SendAfter(t, k, wait),
                     !.pcb[p] = [ready |-> b.ready, state |-> Probe1, probes |-> all, ip |-> both, running |-> TRUE]]

Ready(c) == SelectSeq(SetToSortSeq(Protocols, <), LAMBDA p : c.pcb[p].ready)

ProbeAll(c, ss, ip, clear, wait) ==
  FoldLeft(LAMBDA d, p :
    InitProbe(IF clear THEN [d EXCEPT !.pcb[p].probes = <<>>, !.pcb[p].running = FALSE] ELSE d,
              p, ss, ip, wait[p]), c, Ready(c))

(* MUTANT of RestartAll: the queue is cleared after the probes are in it.  *)
RestartAllCleared(c, wait) == [ProbeAll(c, c.services, TRUE, TRUE, wait) EXCEPT !.tx = <<>>]

RestartAll(c, wait) == ProbeAll([c EXCEPT !.tx = <<>>], c.services, TRUE, TRUE, wait)

Announce(c, p, ss, ip, wait) ==
  LET b == c.pcb[p]
      i == NextPacket(c.tx, p)
      k == Packet(c.tx, p, "announce", ss, IF ip THEN "other" ELSE "no")
  IN  CASE b.ready /\ Probing(b) -> InitProbe(c, p, ss, ip, wait)
        [] b.ready /\ Announcing(b) /\ i # 0 ->
             [c EXCEPT !.tx[i].about = @ \cup Range(ss), !.tx[i].host = IF ip THEN "answer" ELSE @,
                       !.pcb[p].state = Announce1]
        [] b.ready /\ b.state = Running /\ c.host # 0 ->
             [c EXCEPT !.pcb[p].state = Announce1, !.tx = SendAfter(@, k, 0)]
        [] OTHER -> c

AnnounceAll(c, ss, ip, wait) ==
  FoldLeft(LAMBDA d, p : Announce(d, p, ss, ip, wait[p]), c, SetToSortSeq(Protocols, <))

Restart(c, p, wait) == InitProbe(c, p, c.services, TRUE, wait)

Enable(c, p, wait) == Restart([c EXCEPT !.pcb[p].ready = TRUE], p, wait)

(* MUTANT of Disable: the interface does not leave the group.              *)
DisableJoined(c, p) ==
  [c EXCEPT !.tx = IF c.pcb[p].ready THEN Without(@, p) ELSE @, !.pcb[p].state = Off]

Disable(c, p) ==
  [c EXCEPT !.tx = IF c.pcb[p].ready THEN Without(@, p) ELSE @,
            !.pcb[p] = NoPcb, !.probed[p] = {}, !.told[p] = {}]

Schedule(c, k) ==
  LET b == c.pcb[k.pcb]
      p == k.pcb
      again(wait) == [c EXCEPT !.tx = SendAfter(@, [k EXCEPT !.times = @ + 1], wait), !.pcb[p].state = @ + 1]
  IN  CASE b.state \in Probe1..(Probe3 - 1) -> again(ProbeWait)
        [] b.state = Probe3 ->
             [c EXCEPT !.tx = SendAfter(@, AnnounceFrom(@ \o <<k>>, k), ProbeWait),
                       !.pcb[p] = [b EXCEPT !.state = Announce1, !.probes = <<>>, !.ip = FALSE, !.running = FALSE],
                       !.probed[p] = IF k.times = 2 THEN @ \cup Answered(c, k) ELSE @]
        [] b.state \in Announce1..(Announce3 - 1) -> again(AnnounceWait)
        [] b.state = Announce3 -> [c EXCEPT !.pcb[p].state = Running]
        [] OTHER -> c

HandlePacket(c, k) == IF c.pcb[k.pcb].state = Off THEN c ELSE Schedule(Dispatch(c, k), k)

(* A packet in the queue is stripped of a service that is being removed.   *)
Strip(c, i, s) ==
  LET k == c.tx[i]
      b == c.pcb[k.pcb]
      left == [k EXCEPT !.about = @ \ {s}]
      answers(x) == x.kind # "probe" /\ (x.about # {} \/ x.host = "answer")
      last == Len(b.probes) = 1
      mine == b.ready /\ Probing(b) /\ Contains(b.probes, s)
  IN  [c EXCEPT
        !.tx[i] = IF mine THEN [left EXCEPT !.asks = RemoveFirstMatch(@, LAMBDA x : Type[x] = Type[s])] ELSE left,
        !.pcb[k.pcb] =
          CASE mine -> [b EXCEPT !.probes = Remove(@, s),
                                 !.state = IF last /\ ~b.ip THEN Running ELSE @,
                                 !.running = @ /\ ~(last /\ ~b.ip)]
            [] b.ready /\ Announcing(b) /\ answers(k) /\ ~answers(left) -> [b EXCEPT !.state = Running]
            [] OTHER -> b]

(* MUTANT of RemoveScheduled: packets that are queued are left alone.      *)
RemoveUnqueued(c, s) ==
  LET d == FoldLeft(LAMBDA e, i : IF e.tx[i].queued THEN e ELSE Strip(e, i, s), c, [i \in DOMAIN c.tx |-> i])
  IN  [d EXCEPT !.tx = SelectSeq(@, LAMBDA k : k.asks # <<>> \/ k.about # {} \/ k.host # "no")]

RemoveScheduled(c, s) ==
  LET d == FoldLeft(LAMBDA e, i : Strip(e, i, s), c, [i \in DOMAIN c.tx |-> i])
  IN  [d EXCEPT !.tx = SelectSeq(@, LAMBDA k : k.asks # <<>> \/ k.about # {} \/ k.host # "no")]

(***************************************************************************)
(* The timer task: a period passes, and what is due is queued from the     *)
(* first packet that is not.                                               *)
(***************************************************************************)
(* MUTANT of Push: the packet stays marked when the queue is full.         *)
PushMarked(c, i) ==
  [tx |-> [c.tx EXCEPT ![i].queued = TRUE],
   acts |-> IF Len(c.acts) < QueueLen THEN Append(c.acts, [type |-> "tx", at |-> c.tx[i].at]) ELSE c.acts]

Push(c, i) ==
  IF Len(c.acts) < QueueLen
  THEN [c EXCEPT !.tx[i].queued = TRUE, !.acts = Append(@, [type |-> "tx", at |-> c.tx[i].at])]
  ELSE [c EXCEPT !.tx[i].queued = FALSE]

Due(t) ==
  LET i == SelectInSeq(t, LAMBDA k : ~k.queued)
  IN  IF i = 0 THEN {} ELSE {j \in i..Len(t) : \A l \in i..j : t[l].wait < 0}

Timer ==
  LET later == [i \in DOMAIN tx |-> [tx[i] EXCEPT !.wait = IF @ < 0 THEN @ ELSE @ - 1]]
      due == SetToSortSeq(Due(later), <)
      start == [tx |-> later, acts |-> acts]
      Take(c) == [c EXCEPT !.acts = Tail(@)]
  IN  /\ tx # <<>>
      /\ \/ /\ LET c == FoldLeft(Push, start, due) IN tx' = c.tx /\ acts' = c.acts
            /\ UNCHANGED taken
         \/ /\ Crowded /\ taken = None /\ acts # <<>>
            /\ \E n \in 1..Len(due) :
                 LET c == FoldLeft(Push, Take(FoldLeft(Push, start, SubSeq(due, 1, n))), SubSeq(due, n + 1, Len(due)))
                 IN  tx' = c.tx /\ acts' = c.acts
            /\ taken' = Head(acts)
      /\ UNCHANGED <<pcb, services, host, inst, link, probed, told, blurted, ops>>

(***************************************************************************)
(* The service task                                                        *)
(***************************************************************************)
Waits == [Protocols -> FirstWaits]

SendPacket(c, at) ==
  LET k == Head(c.tx)
  IN  IF c.tx # <<>> /\ k.at = at /\ k.queued
      THEN HandlePacket([c EXCEPT !.tx = Tail(@)], [k EXCEPT !.queued = FALSE])
      ELSE c

ByeNoInstance(c) ==
  LET unnamed == {s \in Range(c.services) : c.inst[s] = 0}
  IN  Bye(c, unnamed, unnamed # {})

HostnameSet(c, name, wait) == RestartAll([ByeNoInstance(c) EXCEPT !.host = name], wait)

Execute(act, wait) ==
  CASE act.type = "tx" -> SendPacket(Now, act.at)
    [] act.type = "host" -> HostnameSet(Now, act.name, wait)
    [] act.type = "enable" -> Enable(Now, act.pcb, wait[act.pcb])
    [] act.type = "disable" -> Disable(Now, act.pcb)
    [] act.type = "announce" -> Announce(Now, act.pcb, <<>>, TRUE, wait[act.pcb])
    [] act.type = "browse" -> Now

Service ==
  /\ taken # None \/ acts # <<>>
  /\ \E w \in Waits : Becomes(Execute(IF taken # None THEN taken ELSE Head(acts), w))
  /\ taken' = None
  /\ acts' = IF taken # None THEN acts ELSE Tail(acts)
  /\ UNCHANGED <<link, ops>>

(***************************************************************************)
(* What other hosts send, when the service task parses it (mdns_receive.c) *)
(***************************************************************************)
Quiet == Calm => \A i \in DOMAIN tx : tx[i].kind # "announce"
Operation == ops < MaxOps /\ ops' = ops + 1

(* "name" becomes "name-2", that "name-3".                                 *)
Mangle(n) == n + 1

(* A record of ours with other data, in a probe or an answer that wins.    *)
ConflictA(p) ==
  LET c == [Now EXCEPT !.probed[p] = @ \ {HostName(Now)}]
  IN  /\ Operation /\ Quiet /\ pcb[p].ready /\ host \in 1..MaxNames - 1
      /\ \E w \in Waits :
           Becomes(IF pcb[p].running THEN RestartAll([c EXCEPT !.host = Mangle(@)], w)
                   ELSE InitProbe(c, p, <<>>, TRUE, w[p]))
      /\ UNCHANGED <<acts, taken, link>>

ConflictSrv(p, s) ==
  LET lost == NameOf(Now, s)
      c == [Now EXCEPT !.probed[p] = @ \ {lost}]
  IN  /\ Operation /\ Quiet /\ pcb[p].ready /\ Contains(services, s)
      /\ host < MaxNames /\ inst[s] < MaxNames
      /\ \E w \in Waits :
           Becomes(CASE pcb[p].running /\ inst[s] # 0 ->
                          ProbeAll([c EXCEPT !.inst[s] = Mangle(@)], <<s>>, FALSE, FALSE, w)
                     [] pcb[p].running /\ inst[s] = 0 -> RestartAll([c EXCEPT !.host = Mangle(@)], w)
                     [] OTHER -> InitProbe([c EXCEPT !.told[p] = @ \ {lost}], p, <<s>>, FALSE, w[p]))
      /\ UNCHANGED <<acts, taken, link>>

ConflictTxt(p, s) ==
  /\ Operation /\ Quiet /\ pcb[p].ready /\ ~pcb[p].running /\ Contains(services, s)
  /\ \E w \in FirstWaits : Becomes(InitProbe(Now, p, <<s>>, TRUE, w))
  /\ UNCHANGED <<acts, taken, link>>

(* MUTANT of AfterProbing: the last probe is taken for an announcement.    *)
AfterProbes(b) == b.state >= Probe3

AfterProbing(b) == b.state > Probe3

(* A question is about the host or about services.                         *)
IsOurs(ss) == IF ss = <<>> THEN host # 0 ELSE Range(ss) \subseteq Range(services)

(* A question about what is ours, answered after a while if the answer is  *)
(* shared, at once if not (mdns_priv_create_answer_from_parsed_packet).    *)
Query(p, ss, kind, shared) ==
  LET k == Packet(tx, p, kind, ss, IF ss = <<>> THEN "answer" ELSE "other")
  IN  /\ Operation /\ pcb[p].ready /\ AfterProbing(pcb[p]) /\ IsOurs(ss)
      /\ Becomes(IF shared THEN [Now EXCEPT !.tx = SendAfter(@, k, 0)] ELSE Dispatch(Now, k))
      /\ UNCHANGED <<acts, taken, link>>

(***************************************************************************)
(* The application (mdns_responder.c): its call to set the host's name     *)
(* waits for the service task.                                             *)
(***************************************************************************)
Room(n) == Len(acts) + n <= QueueLen
Waiting == taken.type = "host" \/ \E i \in DOMAIN acts : acts[i].type = "host"
Call == Operation /\ ~Waiting

SetHostname(name) ==
  /\ Call /\ Quiet /\ Room(1)
  /\ acts' = Append(acts, [type |-> "host", name |-> name])
  /\ UNCHANGED <<pcb, tx, taken, services, host, inst, link, probed, told, blurted>>

CreatedAs(s) == IF s \in Own THEN 1 ELSE 0

AddService(s) ==
  LET c == [Now EXCEPT !.services = <<s>> \o @, !.inst[s] = CreatedAs(s)]
  IN  /\ Call /\ Quiet /\ host # 0 /\ ~Contains(services, s)
      /\ \E w \in Waits : Becomes(ProbeAll(c, <<s>>, FALSE, FALSE, w))
      /\ UNCHANGED <<acts, taken, link>>

RemoveService(s) ==
  LET c == RemoveScheduled(Bye([Now EXCEPT !.services = Remove(@, s)], {s}, FALSE), s)
  IN  /\ Call /\ Contains(services, s)
      /\ Becomes([c EXCEPT !.told = Forget(@, {NameOf(Now, s)}), !.probed = Forget(@, {NameOf(Now, s)})])
      /\ UNCHANGED <<acts, taken, link>>

RemoveAllServices ==
  /\ Call /\ services # <<>>
  /\ LET c == FoldLeft(RemoveScheduled, Bye([Now EXCEPT !.services = <<>>], Range(services), FALSE), services)
         gone == {NameOf(Now, s) : s \in Range(services)}
     IN  Becomes([c EXCEPT !.told = Forget(@, gone), !.probed = Forget(@, gone)])
  /\ UNCHANGED <<acts, taken, link>>

RenameService(s) ==
  LET c == [IF inst[s] # 0 THEN Bye(Now, {s}, FALSE) ELSE Now EXCEPT !.inst[s] = @ + 1]
  IN  /\ Call /\ Quiet /\ Contains(services, s) /\ inst[s] < MaxNames
      /\ \E w \in Waits : Becomes(ProbeAll(c, <<s>>, FALSE, FALSE, w))
      /\ UNCHANGED <<acts, taken, link>>

(* New data are announced under the name there is: a port with the         *)
(* addresses, a TXT record or one of its items without.                    *)
SetData(s, ip) ==
  LET c == [Now EXCEPT !.told = Forget(@, {NameOf(Now, s)})]
  IN  /\ Call /\ Contains(services, s)
      /\ \E w \in Waits : Becomes(AnnounceAll(c, <<s>>, ip, w))
      /\ UNCHANGED <<acts, taken, link>>

SetPort(s) == SetData(s, TRUE)
SetTxt(s) == SetData(s, FALSE)
SetTxtItem(s) == SetData(s, FALSE)
RemoveTxtItem(s) == SetData(s, FALSE)

(***************************************************************************)
(* Events of the network (mdns_netif.c): what finds the queue full is lost *)
(***************************************************************************)
Post(q, act) == IF Len(q) < QueueLen THEN Append(q, act) ELSE q

Connected(p) ==
  /\ Operation /\ ~link[p] /\ (Lossy \/ Room(3))
  /\ link' = [link EXCEPT ![p] = TRUE]
  /\ acts' = FoldLeft(Post, acts,
       <<[type |-> "enable", pcb |-> p]>> \o
       [i \in 1..Cardinality(Protocols) - 1 |->
          [type |-> "announce", pcb |-> SetToSortSeq(Protocols \ {p}, <)[i]]] \o <<[type |-> "browse"]>>)
  /\ UNCHANGED <<pcb, tx, taken, services, host, inst, probed, told, blurted>>

Disconnected ==
  /\ Operation /\ (\E p \in Protocols : link[p]) /\ (Lossy \/ Room(Cardinality(Protocols)))
  /\ link' = [p \in Protocols |-> FALSE]
  /\ acts' = FoldLeft(LAMBDA q, p : Post(q, [type |-> "disable", pcb |-> p]), acts, SetToSortSeq(Protocols, <))
  /\ UNCHANGED <<pcb, tx, taken, services, host, inst, probed, told, blurted>>

Next ==
  \/ Timer \/ Service \/ Disconnected \/ RemoveAllServices
  \/ \E p \in Protocols : ConflictA(p) \/ Connected(p)
  \/ \E p \in Protocols, s \in Services : ConflictSrv(p, s) \/ ConflictTxt(p, s)
  \/ \E p \in Protocols, ss \in {<<>>} \cup {<<s>> : s \in Services}, shared \in BOOLEAN :
       \E kind \in Answers : Query(p, ss, kind, shared)
  \/ \E n \in 1..MaxNames : SetHostname(n)
  \/ \E s \in Services : AddService(s) \/ RemoveService(s) \/ RenameService(s)
  \/ \E s \in Services : SetPort(s) \/ SetTxt(s) \/ SetTxtItem(s) \/ RemoveTxtItem(s)

Spec == Init /\ [][Next]_vars

(* A packet the timer marked as queued is going to be sent: its action is  *)
(* on the way, or a packet before it is still to be queued, which queues   *)
(* it again (send_packets, send_packet).                                   *)
SentAtLast ==
  \A i \in DOMAIN tx : tx[i].queued =>
    LET act == [type |-> "tx", at |-> tx[i].at]
    IN  taken = act \/ Contains(acts, act) \/ \E l \in 1..i - 1 : ~tx[l].queued

(* A PCB that is probing or announcing has a packet to go on with.         *)
ProbingMoves ==
  \A p \in Protocols : pcb[p].ready /\ pcb[p].state \in Probe1..Announce3 => NextPacket(tx, p) # 0

(* Nothing is announced or answered under a name that was not probed three *)
(* times on that PCB since it came up or last lost it.                     *)
ProbedFirst == ~blurted

(* What is scheduled, and what is being probed, is about services that are *)
(* still there (mdns_priv_remove_scheduled_service_packets).               *)
ScheduledAreAlive ==
  /\ \A i \in DOMAIN tx : tx[i].about \cup Range(tx[i].asks) \subseteq Range(services)
  /\ \A p \in Protocols : Range(pcb[p].probes) \subseteq Range(services)

(* A PCB that has nothing left to send has announced the host and every    *)
(* service, under the names and with the data they have now.               *)
AnnouncedAtLast ==
  \A p \in Protocols : pcb[p].ready /\ host # 0 /\ NextPacket(tx, p) = 0 =>
    Claims(Now, Range(services), TRUE) \subseteq told[p]

(* Once the events of the network are handled, a PCB is up exactly if its  *)
(* protocol has an address.                                                *)
FollowsLink ==
  taken = None /\ acts = <<>> => \A p \in Protocols : pcb[p].ready = link[p]
=============================================================================
