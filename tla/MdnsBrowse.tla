----------------------------- MODULE MdnsBrowse -----------------------------
(***************************************************************************)
(* Browsing for services (components/mdns/mdns_browser.c, with the part of *)
(* mdns_receive.c that feeds it).  The parser updates a cache of results   *)
(* and lists those that changed; the list is queued behind whatever waits, *)
(* and only then is the application told and a result said goodbye freed.  *)
(***************************************************************************)
EXTENDS Integers, Sequences, SequencesExt

CONSTANTS
  Services,    \* services that may be browsed
  Packets,     \* [goodbye, records] that may arrive
  QueueLen,    \* capacity of the action queue
  QuietDelete, \* whether a browse is deleted only with no packet or notice under way
  Spaced,      \* whether a goodbye arrives only with no packet or notice under way
  Crowded,     \* whether another task may take the place of the packet being parsed
  MaxAsked, MaxPackets

MdnsBrowseAssumption ==
  /\ QueueLen \in Nat \ {0} /\ MaxAsked \in Nat /\ MaxPackets \in Nat
  /\ {QuietDelete, Spaced, Crowded} \subseteq BOOLEAN

None == "none"
NoSync == [browse |-> 0, results |-> <<>>]

VARIABLES
  browses,  \* s_browse, newest first: [id, service, results], results newest first
  queue,    \* s_action_queue
  told,     \* what the notifier was last told of each service: a set of results
  heard,    \* ghost: records that were parsed
  fresh,    \* a number for the next browse or result
  asked, came   \* bounds: calls of the application, packets

vars == <<browses, queue, told, heard, fresh, asked, came>>

Init ==
  /\ browses = <<>> /\ queue = <<>> /\ told = [s \in Services |-> {}]
  /\ heard = {} /\ fresh = 1 /\ asked = 0 /\ came = 0

Room(q) == Len(q) < QueueLen
UnderWay == \E i \in DOMAIN queue : queue[i].type \in {"RX", "SYNC"}
OfService(s, bs) == SelectSeq(bs, LAMBDA b : b.service = s)

Post(act) ==
  /\ asked < MaxAsked /\ asked' = asked + 1
  /\ queue' = IF Room(queue) THEN Append(queue, act) ELSE queue

New(s) ==
  /\ Post([type |-> "ADD", service |-> s, id |-> fresh])
  /\ fresh' = fresh + 1
  /\ UNCHANGED <<browses, told, heard, came>>

Delete(s) ==
  /\ QuietDelete => ~UnderWay
  /\ Post([type |-> "END", service |-> s])
  /\ UNCHANGED <<browses, told, heard, fresh, came>>

Receive(p) ==
  /\ came < MaxPackets /\ Room(queue)
  /\ Spaced /\ p.goodbye => ~UnderWay
  /\ came' = came + 1
  /\ queue' = Append(queue, [type |-> "RX", packet |-> p])
  /\ UNCHANGED <<browses, told, heard, fresh, asked>>

Browse(id, service) == [id |-> id, service |-> service, results |-> <<>>]

Add(act) ==
  LET found == OfService(act.service, browses) # <<>>
  IN  /\ browses' = IF found THEN browses
                    ELSE <<Browse(act.id, act.service)>> \o browses
      /\ told' = IF found THEN told ELSE [told EXCEPT ![act.service] = {}]
      /\ queue' = Tail(queue)
      /\ UNCHANGED <<heard, fresh>>

End(act) ==
  /\ browses' = SelectSeq(browses, LAMBDA b : b.service # act.service)
  /\ queue' = Tail(queue)
  /\ UNCHANGED <<told, heard, fresh>>

(* The parser's local state: the browses, the next number, the list of     *)
(* what changed, the browse of the packet and the staged addresses.        *)
EnsureSync(acc, id) == IF acc.sync = NoSync THEN [acc EXCEPT !.sync.browse = id] ELSE acc

AddChanged(acc, r) ==
  IF r \in Range(acc.sync.results) THEN acc ELSE [acc EXCEPT !.sync.results = <<r>> \o @]

TtlOf(old, ttl) == IF old = 0 \/ ttl < old THEN ttl ELSE old

At(acc, id) == SelectInSeq(acc.browses, LAMBDA b : b.id = id)
ResultsOf(acc, id) == acc.browses[At(acc, id)].results

(* MUTANT of Put: a result said goodbye is removed at once.                *)
PutOrDrop(acc, id, k, r) ==
  [acc EXCEPT !.browses[At(acc, id)].results = IF r.ttl = 0 THEN RemoveAt(@, k) ELSE [@ EXCEPT ![k] = r]]

Put(acc, id, k, r) == [acc EXCEPT !.browses[At(acc, id)].results[k] = r]

AddNew(acc, id, r) ==
  AddChanged([acc EXCEPT !.browses[At(acc, id)].results = <<r>> \o @, !.fresh = @ + 1], r.id)

Blank(acc, inst, ttl) ==
  [id |-> acc.fresh, inst |-> inst, host |-> None, txt |-> None, addrs |-> {}, ttl |-> ttl]

(* MUTANT of ChangedIf: only new results are told.                         *)
ChangedNever(changed, acc, r) == acc

ChangedIf(changed, acc, r) == IF changed THEN AddChanged(acc, r.id) ELSE acc

AddPtr(acc, id, rec) ==
  LET k == SelectInSeq(ResultsOf(acc, id), LAMBDA r : r.inst = rec.value)
  IN  IF k = 0 THEN AddNew(acc, id, Blank(acc, rec.value, rec.ttl))
      ELSE LET r == ResultsOf(acc, id)[k]
               ttl == TtlOf(r.ttl, rec.ttl)
           IN  ChangedIf(ttl # r.ttl, Put(acc, id, k, [r EXCEPT !.ttl = ttl]), r)


CopiedAddrs(rs, host) ==
  LET k == SelectInSeq(rs, LAMBDA r : r.host = host /\ r.addrs # {})
  IN  IF k = 0 THEN {} ELSE rs[k].addrs

AddSrv(acc, id, rec) ==
  LET rs == ResultsOf(acc, id)
      k == SelectInSeq(rs, LAMBDA r : r.inst = rec.name)
  IN  IF k = 0 THEN AddNew(acc, id, [Blank(acc, rec.name, rec.ttl) EXCEPT !.host = rec.value])
      ELSE LET r == rs[k]
               ttl == TtlOf(r.ttl, rec.ttl)
               moved == r.host # rec.value
               addrs == IF moved /\ r.addrs = {} THEN CopiedAddrs(rs, rec.value) ELSE r.addrs
           IN  ChangedIf(moved \/ ttl # r.ttl,
                         Put(acc, id, k, [r EXCEPT !.host = rec.value, !.addrs = addrs, !.ttl = ttl]), r)

AddTxt(acc, id, rec) ==
  LET k == SelectInSeq(ResultsOf(acc, id), LAMBDA r : r.inst = rec.name)
  IN  IF k = 0 THEN AddNew(acc, id, [Blank(acc, rec.name, rec.ttl) EXCEPT !.txt = rec.value])
      ELSE LET r == ResultsOf(acc, id)[k]
               ttl == TtlOf(r.ttl, rec.ttl)
           IN  ChangedIf((r.txt # None /\ r.txt # rec.value) \/ ttl # r.ttl,
                         Put(acc, id, k, [r EXCEPT !.txt = rec.value, !.ttl = ttl]), r)

AddIp(acc, rec) ==
  LET id == acc.sync.browse
      k == SelectInSeq(ResultsOf(acc, id), LAMBDA r : r.host = rec.name /\ rec.value \notin r.addrs)
  IN  IF k = 0 THEN acc
      ELSE LET r == ResultsOf(acc, id)[k]
           IN  AddChanged(Put(acc, id, k, [r EXCEPT !.addrs = @ \cup {rec.value}, !.ttl = TtlOf(@, rec.ttl)]), r.id)

BrowseFind(acc, rec) ==
  LET k == SelectInSeq(acc.browses, LAMBDA b :
             IF rec.type = "A" THEN \E i \in DOMAIN b.results : b.results[i].host = rec.name
                               ELSE b.service = rec.service)
  IN  IF k = 0 THEN 0 ELSE acc.browses[k].id

Record(acc, rec) ==
  LET id == BrowseFind(acc, rec)
      of == IF id = 0 THEN acc ELSE [EnsureSync(acc, id) EXCEPT !.packet = id]
      mine == id # 0 /\ of.sync.browse = id
  IN  CASE rec.type = "A" ->
             IF of.packet = 0 THEN of ELSE [of EXCEPT !.staged = <<rec>> \o @]
        [] rec.type = "PTR" /\ mine -> AddPtr(of, id, rec)
        [] rec.type = "SRV" /\ mine -> AddSrv(of, id, rec)
        [] rec.type = "TXT" /\ mine -> AddTxt(of, id, rec)
        [] OTHER -> of

ApplyStaged(acc) ==
  IF acc.staged # <<>> /\ acc.sync.browse = acc.packet THEN FoldLeft(AddIp, acc, acc.staged) ELSE acc

Parse(p) ==
  ApplyStaged(FoldLeft(Record, [browses |-> browses, fresh |-> fresh, sync |-> NoSync, packet |-> 0, staged |-> <<>>],
                       p.records))

Rx(act) ==
  LET after == Parse(act.packet)
      notice == [type |-> "SYNC", browse |-> after.sync.browse, results |-> after.sync.results]
  IN  /\ browses' = after.browses /\ fresh' = after.fresh
      /\ heard' = heard \cup Range(act.packet.records)
      /\ IF after.sync.results = <<>>
         THEN queue' = Tail(queue)
         ELSE \/ queue' = Append(Tail(queue), notice)
              \/ Crowded /\ ~Room(queue) /\ queue' = Tail(queue)
      /\ UNCHANGED told

Said(r) == [inst |-> r.inst, host |-> r.host, txt |-> r.txt, addrs |-> r.addrs, ttl |-> r.ttl]

Notify(acc, id) ==
  LET k == SelectInSeq(acc.results, LAMBDA r : r.id = id)
      r == acc.results[k]
      others == {t \in acc.told : t.inst # r.inst}
  IN  CASE k = 0 -> acc
        [] k # 0 /\ r.ttl = 0 -> [told |-> others, results |-> SelectSeq(acc.results, LAMBDA x : x.id # id)]
        [] OTHER -> [told |-> others \cup {Said(r)}, results |-> acc.results]

Sync(act) ==
  LET k == SelectInSeq(browses, LAMBDA b : b.id = act.browse)
      b == browses[k]
      after == FoldLeft(Notify, [told |-> told[b.service], results |-> b.results], act.results)
  IN  /\ queue' = Tail(queue)
      /\ IF k = 0 THEN UNCHANGED <<browses, told>>
         ELSE /\ browses' = [browses EXCEPT ![k].results = after.results]
              /\ told' = [told EXCEPT ![b.service] = after.told]
      /\ UNCHANGED <<heard, fresh>>

Service ==
  /\ queue # <<>>
  /\ LET act == Head(queue)
     IN  \/ act.type = "ADD" /\ Add(act)
         \/ act.type = "END" /\ End(act)
         \/ act.type = "RX" /\ Rx(act)
         \/ act.type = "SYNC" /\ Sync(act)
  /\ UNCHANGED <<asked, came>>

Next ==
  \/ \E s \in Services : New(s) \/ Delete(s)
  \/ \E p \in Packets : Receive(p)
  \/ Service

Spec == Init /\ [][Next]_vars

(* The browse and the results a notice was queued for are still there when *)
(* the notice is run: nothing between freed them (mdns.h: the result       *)
(* remains a live node in the cache until the callback returns).           *)
NoticeIsLive ==
  \A i \in DOMAIN queue : queue[i].type = "SYNC" =>
    \E j \in DOMAIN browses :
      /\ browses[j].id = queue[i].browse
      /\ \A id \in Range(queue[i].results) : \E k \in DOMAIN browses[j].results : browses[j].results[k].id = id

(* Once no packet and no notice is under way, an application that follows  *)
(* the notifier knows the cache of its browse: every change was told, and  *)
(* what said goodbye is gone (browse_sync, add_browse_result).             *)
ToldIsKept ==
  ~UnderWay => \A j \in DOMAIN browses :
    told[browses[j].service] = {Said(r) : r \in Range(browses[j].results)}

(* A service is browsed once and an instance has one result, whose host    *)
(* was given for it and whose addresses were given for that host.          *)
BrowseIsHeard ==
  \A j \in DOMAIN browses :
    LET b == browses[j]
        said(t, n, v) == \E rec \in heard : rec.type = t /\ rec.name = n /\ rec.value = v
    IN  /\ Len(OfService(b.service, browses)) = 1
        /\ \A k, l \in DOMAIN b.results : b.results[k].inst = b.results[l].inst => k = l
        /\ \A r \in Range(b.results) :
             /\ r.host # None => said("SRV", r.inst, r.host)
             /\ r.txt # None => said("TXT", r.inst, r.txt)
             /\ \A ip \in r.addrs : said("A", r.host, ip)
=============================================================================
