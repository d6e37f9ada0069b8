------------------------------- MODULE MCMdns -------------------------------
(***************************************************************************)
(* Three views of the mDNS component, one of them in a behaviour: the      *)
(* searches, the browses, and the claiming of names on one interface.      *)
(***************************************************************************)
EXTENDS Integers, Sequences, TLC

CONSTANTS Addrs, Callers, Asked, Arriving, SearchQueue, Again, Clock, Browsed, RudeStop, MaxNow, MaxAsked, MaxPackets,
          Browsable, Heard, BrowseQueue, QuietDelete, Spaced, BrowseCrowded, MaxCalls, MaxCame,
          Protocols, Offered, Own, Alike, Answers, PcbQueue, FirstWaits, Crowded, Lossy, Calm, MaxOps, MaxNames

VARIABLES part,
          mem, list, searchQueue, caller, now, server, heard, asked, twice,
          browses, browseQueue, told, records, fresh, calls, came,
          pcb, tx, acts, taken, services, host, inst, link, probed, announced, blurted, ops

searchVars == <<mem, list, searchQueue, caller, now, server, heard, asked, twice>>
browseVars == <<browses, browseQueue, told, records, fresh, calls, came>>
pcbVars == <<pcb, tx, acts, taken, services, host, inst, link, probed, announced, blurted, ops>>

(* What the application asks for, by name.                                 *)
Question(name) ==
  CASE name = "ptr" -> [type |-> "PTR", service |-> TRUE, key |-> "none", timeout |-> 1, max |-> 0, blocking |-> TRUE]
    [] name = "srv" -> [type |-> "SRV", service |-> TRUE, key |-> "i", timeout |-> 1, max |-> 1, blocking |-> FALSE]
    [] name = "a" -> [type |-> "A", service |-> FALSE, key |-> "h", timeout |-> 1, max |-> 1, blocking |-> TRUE]

(* What arrives: an answer, and one in an odd order that is not an answer. *)
Record(type, name, value, ttl) == [type |-> type, name |-> name, value |-> value, ttl |-> ttl]
Packet(name) ==
  CASE name = "answer" ->
         [on |-> 1, authoritative |-> TRUE,
          records |-> <<Record("PTR", "s", "i", 2), Record("SRV", "i", "h", 1), Record("A", "h", "1", 2)>>]
    [] name = "odd" ->
         [on |-> 1, authoritative |-> FALSE,
          records |-> <<Record("TXT", "j", "t", 2), Record("SRV", "j", "g", 1), Record("A", "g", "2", 2),
                       Record("A", "h", "3", 2)>>]

Of(type, service, name, value, ttl) ==
  [type |-> type, service |-> service, name |-> name, value |-> value, ttl |-> ttl]
Notice(name) ==
  CASE name = "i" ->
         [goodbye |-> FALSE,
          records |-> <<Of("PTR", "s", "s", "i", 2), Of("SRV", "s", "i", "h", 2), Of("TXT", "s", "i", "x", 2),
                        Of("A", "none", "h", "1", 2)>>]
    [] name = "j" ->
         [goodbye |-> FALSE, records |-> <<Of("PTR", "s", "s", "j", 2), Of("SRV", "s", "j", "h", 2)>>]
    [] name = "changed" ->
         [goodbye |-> FALSE,
          records |-> <<Of("TXT", "s", "i", "y", 1), Of("A", "none", "h", "3", 2), Of("PTR", "s", "s", "m", 2),
                        Of("SRV", "s", "m", "q", 2)>>]
    [] name = "other" ->
         [goodbye |-> FALSE,
          records |-> <<Of("A", "none", "g", "2", 2), Of("PTR", "t", "t", "k", 2), Of("SRV", "t", "k", "g", 2)>>]
    [] name = "bye" -> [goodbye |-> TRUE, records |-> <<Of("PTR", "s", "s", "i", 0)>>]
    [] name = "late" -> [goodbye |-> FALSE, records |-> <<Of("TXT", "s", "j", "x", 2)>>]
    [] name = "moved" -> [goodbye |-> FALSE, records |-> <<Of("SRV", "s", "i", "g", 2)>>]

S == INSTANCE MdnsSearch WITH Questions <- {Question(n) : n \in Asked}, Packets <- {Packet(n) : n \in Arriving},
       QueueLen <- SearchQueue, queue <- searchQueue
B == INSTANCE MdnsBrowse WITH Services <- Browsable, Packets <- {Notice(n) : n \in Heard}, QueueLen <- BrowseQueue,
       Crowded <- BrowseCrowded, MaxAsked <- MaxCalls, MaxPackets <- MaxCame,
       queue <- browseQueue, heard <- records, asked <- calls
P == INSTANCE MdnsPcb WITH Services <- Offered, Type <- [s \in Offered |-> IF Alike THEN "same" ELSE s],
       QueueLen <- PcbQueue, told <- announced

ASSUME MdnsAssumption == S!MdnsSearchAssumption /\ B!MdnsBrowseAssumption /\ P!MdnsPcbAssumption

Symmetry == Permutations(Addrs) \cup Permutations(Callers)

Init ==
  /\ part \in {"search", "browse", "pcb"}
  /\ S!Init /\ B!Init /\ P!Init
  /\ part # "pcb" => link = [p \in Protocols |-> FALSE]

Next ==
  /\ UNCHANGED part
  /\ \/ part = "search" /\ S!Next /\ UNCHANGED <<browseVars, pcbVars>>
     \/ part = "browse" /\ B!Next /\ UNCHANGED <<searchVars, pcbVars>>
     \/ part = "pcb" /\ P!Next /\ UNCHANGED <<searchVars, browseVars>>

Spec == Init /\ [][Next]_<<part, searchVars, browseVars, pcbVars>>

(* A search ends only when its own time is over or it has what it asked    *)
(* for; what a freed search left in the queue does not end the one that    *)
(* has its address now (MdnsSearch).                                       *)
EndsByRight ==
  [][\A a \in Addrs :
       /\ part = "search"
       /\ mem[a] # S!Free /\ mem[a].state # "OFF" /\ mem'[a] # S!Free /\ mem'[a].state = "OFF" =>
         \/ now > mem[a].began + mem[a].timeout
         \/ mem[a].max # 0 /\ Len(mem'[a].results) >= mem[a].max]_<<part, searchVars>>

(* A task that waits for a search is, or will be, answered (MdnsSearch).   *)
WaiterServed == part = "search" => S!WaiterServed

(* What a search found was said by packets (MdnsSearch).                   *)
ResultsAreHeard == part = "search" => S!ResultsAreHeard

(* Stopping the responder frees every search once (MdnsSearch).            *)
StopFrees == part = "search" => S!StopFrees

(* What a queued notice points to is still there (MdnsBrowse).             *)
NoticeIsLive == part = "browse" => B!NoticeIsLive

(* An application that follows the notifier knows the cache (MdnsBrowse).  *)
ToldIsKept == part = "browse" => B!ToldIsKept

(* A browsed instance has one result, put together from what was said of   *)
(* it (MdnsBrowse).                                                        *)
BrowseIsHeard == part = "browse" => B!BrowseIsHeard

(* A packet marked as queued is going to be sent (MdnsPcb).                *)
SentAtLast == part = "pcb" => P!SentAtLast

(* A PCB that probes or announces has a packet to go on with (MdnsPcb).    *)
ProbingMoves == part = "pcb" => P!ProbingMoves

(* Names are probed three times before they are used (MdnsPcb).            *)
ProbedFirst == part = "pcb" => P!ProbedFirst

(* What is scheduled is about services that are still there (MdnsPcb).     *)
ScheduledAreAlive == part = "pcb" => P!ScheduledAreAlive

(* A PCB with nothing left to send has announced everything (MdnsPcb).     *)
AnnouncedAtLast == part = "pcb" => P!AnnouncedAtLast

(* A PCB is up exactly if its protocol has an address (MdnsPcb).           *)
FollowsLink == part = "pcb" => P!FollowsLink

(* Callers are answered with what packets said, a search ends by its own   *)
(* right, and what is freed is freed once (mdns_querier.c).                *)
SearchesAreRight == [](WaiterServed /\ ResultsAreHeard /\ StopFrees) /\ EndsByRight


(* A name is probed, then announced, and follows the address of its        *)
(* interface, and what is scheduled is alive and sent (mdns_pcb.c).        *)
NamesAreClaimed ==
  SentAtLast /\ ProbingMoves /\ ProbedFirst /\ ScheduledAreAlive /\ AnnouncedAtLast /\ FollowsLink
=============================================================================
