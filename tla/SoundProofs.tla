----------------------------- MODULE SoundProofs -----------------------------
(***************************************************************************)
(* Theorems about the sound of the bike, for any clips and sentences, any  *)
(* length of the queue and any number of record tasks.                     *)
(***************************************************************************)
EXTENDS Sound, SequenceTheorems, TLAPS

(* Most steps leave alone what a conversation and Bluetooth are to each other. *)
PlainStep ==
  [op : {"uninstall", "clip", "recStop", "record", "write", "written", "ended"}]
  \cup [op : {"setup"}, c : Configs, m : Modes] \cup [op : {"pins", "mode"}, m : Modes]
  \cup [op : {"port"}, m : Modes, ok : BOOLEAN] \cup [op : {"speak"}, always : BOOLEAN]

(* The others a task comes to one by one. *)
ControlStep ==
  [op : {"bring", "on", "notOn", "handBack", "notStarted", "off", "takeOutput", "lend",
         "started"}]
  \cup [op : {"active", "socket", "run"}, v : BOOLEAN]
  \cup [op : {"down"}, s : SUBSET AllStages]

Steps == PlainStep \cup ControlStep

(* What follows the end of the stack: nothing, or the start of a conversation. *)
Nexts == {<<>>, Converse(Voice), Converse(Bad)}

(* Where a task is: the control steps it still has to do, from the first on. *)
Sets(op, v) == [op |-> op, v |-> v]
Off(x)    == << Simple("off") >> \o x
Parted(x) == << Simple("notStarted") >> \o (Say \o Off(x))
Return(x) == << Sets("run", TRUE) >> \o Parted(x)
Parting(x) == << Simple("handBack") >> \o (Say \o Off(x))
DownLast(x) == << Down(AllStages \ Profiles) >> \o Parting(x)
DownFirst(x) == << Down(Profiles) >> \o DownLast(x)

Opened  == << Sets("socket", TRUE) >> \o <<>>
Open == << Sets("active", TRUE) >> \o Opened
Setting(x) == Reconfigure(IF x = Converse(Bad) THEN Bad ELSE Voice, "I2S_ADC")
              \o << Simple("record") >>
Take(x) == << Simple("takeOutput") >> \o (Setting(x) \o Open)
Closed(end)  == << Sets("socket", FALSE) >> \o (Speak \o end)
Close(end) == << Sets("active", FALSE) >> \o Closed(end)
NotOn == << Simple("notOn") >> \o Say
FailLast == << Down(AllStages \ Profiles) >> \o NotOn
Ended == << Simple("ended") >>

ToGo(at, x) ==
  CASE at = "none"    -> <<>>
    [] at = "pause"   -> << Sets("run", FALSE) >> \o Take(x)
    [] at = "take"    -> Take(x)
    [] at = "open"    -> Open
    [] at = "opened"  -> Opened
    [] at = "resume"  -> << Sets("run", TRUE) >> \o Close(<<>>)
    [] at = "close"   -> Close(<<>>)
    [] at = "closed"  -> Closed(<<>>)
    [] at = "regain"  -> << Sets("run", TRUE) >> \o Close(Ended)
    [] at = "refuse"  -> Close(Ended)
    [] at = "refused" -> Closed(Ended)
    [] at = "bring"   -> << Simple("bring") >> \o <<>>
    [] at = "on"      -> << Simple("on") >> \o Say
    [] at = "failFirst" -> << Down(Profiles) >> \o FailLast
    [] at = "failLast" -> FailLast
    [] at = "notOn"   -> NotOn
    [] at = "downFirst" -> DownFirst(x)
    [] at = "downLast" -> DownLast(x)
    [] at = "parting" -> Parting(x)
    [] at = "return"  -> Return(x)
    [] at = "parted"  -> Parted(x)
    [] at = "off"     -> Off(x)
    [] at = "hush"    -> << Sets("run", FALSE) >> \o (<< Simple("lend") >> \o <<>>)
    [] at = "lend"    -> << Simple("lend") >> \o <<>>
    [] at = "lent"    -> << Simple("started") >> \o <<>>

Stopping == {"downFirst", "downLast", "parting", "return", "parted", "off"}
Starting == {"bring", "on", "failFirst", "failLast", "notOn"}
Talking  == {"pause", "take", "open", "opened", "resume", "close", "closed"}
Refusing == {"regain", "refuse", "refused"}
Lending  == {"hush", "lend", "lent"}
Places   == {"none"} \cup Talking \cup Refusing \cup Starting \cup Stopping \cup Lending

(* The places of the main task; in start and stop of the conversation, the *)
(* places before the first thing it notes of it.                           *)
MainPlaces == Places \ (Refusing \cup Lending)
Coming == {"pause", "take", "open"}
Going  == {"resume", "close", "regain", "refuse"}

(* The task's steps are plain ones and then those from where it is. *)
Leads(s, q) == \E p \in Seq(PlainStep) : s = p \o q

Placed(at, x) ==
  /\ at \in [Tasks -> Places] /\ x \in Nexts
  /\ at["main"] \in MainPlaces
  /\ \A r \in Recorders : at[r] \in {"none"} \cup Refusing
  /\ at["radio"] \in {"none"} \cup Lending /\ at["play"] = "none"
  /\ \A t \in Tasks : Leads(todo[t], ToGo(at[t], x))

(* One task at a time is inside start or stop of the conversation, which   *)
(* says what it has done of it.  With Overlapping, nothing is known.       *)
Talks(a, x) == a \in Talking \cup Refusing \/ (a \in Stopping /\ x # <<>>)

Told(at, x) ==
  /\ \A t, u \in Tasks : Talks(at[t], x) /\ Talks(at[u], x) => t = u
  /\ \A t \in Tasks :
       /\ at[t] \in Coming \cup Stopping /\ Talks(at[t], x) => ~active /\ ~socket
       /\ at[t] = "opened" => active /\ ~socket
       /\ at[t] \in Going => active /\ socket
       /\ at[t] \in {"closed", "refused"} => ~active /\ socket
  /\ (\A t \in Tasks : ~Talks(at[t], x)) => socket = active

Talk(at, x) == ~Overlapping => Told(at, x)

(* The stack is down; the task of Bluetooth has nothing to do.  *)
Unheard == todo["radio"] = <<>> /\ "a2dp" \notin up
Noted == bt.connected \/ bt.playing \/ bt.started
StackOff == up = {} /\ ~bt.on /\ ~Noted /\ Unheard

(* Where the main task is says what the stack is. *)
Stack(a) ==
  /\ a = "none" => IF bt.on THEN up = AllStages /\ ~active ELSE StackOff
  /\ a \in Talking \cup {"bring", "notOn"} => StackOff
  /\ a \in Starting \cup Stopping => ~active
  /\ a = "on" => up = AllStages /\ ~bt.on
  /\ a \in {"failFirst", "failLast"} => ~bt.on /\ ~Noted /\ Unheard
  /\ a = "downFirst" => up = AllStages
  /\ a \in {"failLast", "downLast"} => up \cap Profiles = {}
  /\ a \in {"parting", "return", "parted", "off"} => up = {} /\ Unheard
  /\ a = "off" => ~bt.started

Links == [on : BOOLEAN, started : BOOLEAN, connected : BOOLEAN, playing : BOOLEAN]

(* Who has the output: a conversation, from the pause of the engine until it   *)
(* is resumed; or music, in the same way.                                      *)
Held(at) ==
  \/ at["main"] \in {"take", "open"}
  \/ active /\ \A t \in Tasks : at[t] \notin {"close", "refuse"}
  \/ bt.started /\ at["main"] # "parted"
  \/ at["radio"] \in {"lend", "lent"}

(* The engine is paused while another part has the output, and no longer.      *)
Owner(at) == (Held(at) => ~run) /\ (run \/ Held(at) \/ ~valid) /\ ~crashed
Owned(at) == ~Overlapping => Owner(at)

Ordered(at, x) == Placed(at, x) /\ Talk(at, x) /\ Stack(at["main"]) /\ Owned(at)
IInv == TypeOK /\ bt \in Links /\ \E at, x : Ordered(at, x)

-----------------------------------------------------------------------------
(* The steps.                                                                *)

PlainOps == {"uninstall", "clip", "recStop", "record", "write", "written", "ended", "setup",
             "pins", "mode", "port", "speak"}
ControlOps == {"bring", "on", "notOn", "handBack", "notStarted", "off", "takeOutput", "lend",
               "started", "active", "socket", "run", "down"}

LEMMA StepOps ==
  /\ \A s \in PlainStep : s.op \in PlainOps
  /\ \A s \in ControlStep : s.op \in ControlOps
  /\ \A s \in Steps : s \in PlainStep <=> s.op \notin ControlOps
  <1>1. \A s \in PlainStep : s.op \in PlainOps
    BY DEF PlainStep, PlainOps
  <1>2. \A s \in ControlStep : s.op \in ControlOps
    BY DEF ControlStep, ControlOps
  <1>3. PlainOps \cap ControlOps = {}
    BY DEF PlainOps, ControlOps
  <1>4. QED
    BY <1>1, <1>2, <1>3 DEF Steps

LEMMA PlainSteps ==
  /\ \A op \in {"uninstall", "clip", "recStop", "record", "write", "written", "ended"} :
        Simple(op) \in PlainStep
  /\ \A c \in Configs, m \in Modes : [op |-> "setup", c |-> c, m |-> m] \in PlainStep
  /\ \A m \in Modes : [op |-> "pins", m |-> m] \in PlainStep
  /\ \A m \in Modes : [op |-> "mode", m |-> m] \in PlainStep
  /\ \A m \in Modes, ok \in BOOLEAN : [op |-> "port", m |-> m, ok |-> ok] \in PlainStep
  /\ \A a \in BOOLEAN : [op |-> "speak", always |-> a] \in PlainStep
  BY DEF PlainStep, Simple

LEMMA ControlSteps ==
  /\ \A op \in {"bring", "on", "notOn", "handBack", "notStarted", "off", "takeOutput", "lend",
                "started"} : Simple(op) \in ControlStep
  /\ \A op \in {"active", "socket", "run"}, v \in BOOLEAN : Sets(op, v) \in ControlStep
  /\ \A s \in SUBSET AllStages : Down(s) \in ControlStep
  BY DEF ControlStep, Simple, Sets, Down

\* A step that is put before a sequence is its head, the sequence its tail.
LEMMA HeadAndRest ==
  ASSUME NEW S, NEW a \in S, NEW s \in Seq(S)
  PROVE  /\ << a >> \o s \in Seq(S) /\ << a >> \o s # <<>>
         /\ Head(<< a >> \o s) = a /\ Tail(<< a >> \o s) = s
  <1>1. << a >> \in Seq(S) /\ Len(<< a >>) = 1 /\ << a >>[1] = a
    OBVIOUS
  <1>2. /\ << a >> \o s \in Seq(S) /\ Len(<< a >> \o s) = 1 + Len(s)
        /\ \A i \in 1 .. 1 + Len(s) : (<< a >> \o s)[i] = IF i <= 1 THEN << a >>[i] ELSE s[i - 1]
    BY <1>1, ConcatProperties
  <1>3. Len(s) \in Nat
    BY LenProperties
  <1>4. << a >> \o s # <<>>
    BY <1>2, <1>3
  <1>5. Head(<< a >> \o s) = a
    BY <1>1, <1>2, <1>3
  <1>6. /\ Tail(<< a >> \o s) \in Seq(S) /\ Len(Tail(<< a >> \o s)) = Len(s)
        /\ \A i \in 1 .. Len(s) : Tail(<< a >> \o s)[i] = (<< a >> \o s)[i + 1]
    BY <1>2, <1>3, <1>4, HeadTailProperties
  <1>7. \A i \in 1 .. Len(s) : Tail(<< a >> \o s)[i] = s[i]
    BY <1>2, <1>3, <1>6
  <1>8. Tail(<< a >> \o s) = s
    BY <1>6, <1>7, SeqEqual
  <1>9. QED
    BY <1>2, <1>4, <1>5, <1>8

LEMMA PlainIsStep == ASSUME NEW s \in Seq(PlainStep) PROVE s \in Seq(Steps)
  BY SeqMonotonic DEF Steps

-----------------------------------------------------------------------------
(* The sequences handlers are made of.                                       *)

LEMMA PlainSequences ==
  /\ \A c \in Configs, m \in Modes : Reconfigure(c, m) \in Seq(PlainStep)
  /\ \A c \in Configs, m \in Modes : Install(c, m) \in Seq(PlainStep)
  /\ Speak \in Seq(PlainStep) /\ Say \in Seq(PlainStep)
  /\ <<>> \in Seq(PlainStep) /\ Ended \in Seq(PlainStep)
  <1>1. ASSUME NEW c \in Configs, NEW m \in Modes PROVE Install(c, m) \in Seq(PlainStep)
    <2>1. [op |-> "setup", c |-> c, m |-> m] \in PlainStep /\ [op |-> "pins", m |-> m] \in PlainStep
      BY PlainSteps
    <2>2. QED
      BY <2>1 DEF Install
  <1>2. ASSUME NEW c \in Configs, NEW m \in Modes PROVE Reconfigure(c, m) \in Seq(PlainStep)
    <2>1. << Simple("uninstall") >> \in Seq(PlainStep)
      BY PlainSteps
    <2>2. [op |-> "mode", m |-> m] \in PlainStep
      BY PlainSteps
    <2>3. << [op |-> "mode", m |-> m] >> \in Seq(PlainStep)
      BY <2>2
    <2>4. << Simple("uninstall") >> \o Install(c, m) \in Seq(PlainStep)
      BY <1>1, <2>1, ConcatProperties
    <2>5. QED
      BY <2>3, <2>4, ConcatProperties DEF Reconfigure

  <1>4. Speak \in Seq(PlainStep)
    <2>1. [op |-> "speak", always |-> TRUE] \in PlainStep
      BY PlainSteps
    <2>2. QED
      BY <2>1 DEF Speak
  <1>5. Say \in Seq(PlainStep)
    <2>1. [op |-> "speak", always |-> FALSE] \in PlainStep
      BY PlainSteps
    <2>2. QED
      BY <2>1 DEF Say
  <1>6. Ended \in Seq(PlainStep)
    BY PlainSteps DEF Ended
  <1>7. QED
    BY <1>1, <1>2, <1>4, <1>5, <1>6

LEMMA TwoSteps ==
  ASSUME NEW a, NEW b
  PROVE  << a, b >> = << a >> \o << b >>
  <1> DEFINE S == {a, b}
             s == << a >> \o << b >>
             u == << a, b >>
  <1>1. << a >> \in Seq(S) /\ << b >> \in Seq(S) /\ u \in Seq(S)
    OBVIOUS
  <1>2. s \in Seq(S) /\ Len(s) = 2 /\ s[1] = a /\ s[2] = b
    <2> HIDE DEF S
    <2>1. QED
      BY <1>1, ConcatProperties
  <1>3. Len(u) = 2 /\ u[1] = a /\ u[2] = b
    OBVIOUS
  <1> HIDE DEF s, u, S
  <1>4. Len(s) = Len(u) /\ \A i \in 1 .. Len(s) : s[i] = u[i]
    BY <1>2, <1>3
  <1>5. s = u
    BY <1>1, <1>2, <1>4, SeqEqual
  <1>6. QED
    BY <1>5 DEF s, u

LEMMA Joined ==
  /\ \A s, t \in Seq(Steps) : s \o t \in Seq(Steps)
  /\ \A s, t, u \in Seq(Steps) : (s \o t) \o u = s \o (t \o u)
  BY ConcatProperties, ConcatAssociative

\* Four and six sequences, joined from the left or from the right.
SameOf4(a, b, c, d) == ((a \o b) \o c) \o d = a \o (b \o (c \o d))
SameOf6(a, b, c, d, e, f) ==
  ((((a \o b) \o c) \o d) \o e) \o f = a \o (b \o (c \o (d \o (e \o f))))

LEMMA Joined4 ==
  ASSUME NEW a \in Seq(Steps), NEW b \in Seq(Steps), NEW c \in Seq(Steps), NEW d \in Seq(Steps)
  PROVE  SameOf4(a, b, c, d)
  <1> DEFINE ab == a \o b
             cd == c \o d
  <1>1. ab \in Seq(Steps) /\ cd \in Seq(Steps)
    BY Joined
  <1>2. ab \o cd = a \o (b \o cd)
    <2> HIDE DEF cd
    <2>1. QED
      BY <1>1, Joined
  <1>3. (ab \o c) \o d = ab \o cd
    <2> HIDE DEF ab
    <2>1. QED
      BY <1>1, Joined
  <1>4. QED
    BY <1>2, <1>3, Zenon DEF SameOf4

LEMMA Joined6 ==
  ASSUME NEW a \in Seq(Steps), NEW b \in Seq(Steps), NEW c \in Seq(Steps), NEW d \in Seq(Steps),
         NEW e \in Seq(Steps), NEW f \in Seq(Steps)
  PROVE  SameOf6(a, b, c, d, e, f)
  <1> DEFINE ab == a \o b
             abc == ab \o c
             ef == e \o f
             def == d \o ef
  <1>1. ab \in Seq(Steps) /\ ef \in Seq(Steps)
    BY Joined
  <1>2. abc \in Seq(Steps) /\ def \in Seq(Steps)
    <2> HIDE DEF ab, ef
    <2>1. QED
      BY <1>1, Joined
  <1>3. ((abc \o d) \o e) \o f = abc \o def
    <2> HIDE DEF abc
    <2>1. SameOf4(abc, d, e, f)
      BY <1>2, Joined4
    <2>2. QED
      BY <2>1, Zenon DEF SameOf4
  <1>4. abc \o def = a \o (b \o (c \o def))
    <2> HIDE DEF def
    <2>1. SameOf4(a, b, c, def)
      BY <1>2, Joined4
    <2>2. QED
      BY <2>1, Zenon DEF SameOf4
  <1>5. QED
    BY <1>3, <1>4, Zenon DEF SameOf6

LEMMA ControlSequences ==
  /\ \A op \in {"bring", "on", "notOn", "handBack", "notStarted", "off", "takeOutput", "lend",
                "started"} : << Simple(op) >> \in Seq(Steps)
  /\ \A op \in {"active", "socket", "run"}, v \in BOOLEAN : << Sets(op, v) >> \in Seq(Steps)
  /\ << Down(Profiles) >> \in Seq(Steps) /\ << Down(AllStages \ Profiles) >> \in Seq(Steps)
  <1>1. /\ \A op \in {"bring", "on", "notOn", "handBack", "notStarted", "off", "takeOutput",
                      "lend", "started"} : Simple(op) \in Steps
        /\ \A op \in {"active", "socket", "run"}, v \in BOOLEAN : Sets(op, v) \in Steps
    BY ControlSteps DEF Steps
  <1>2. Profiles \in SUBSET AllStages /\ AllStages \ Profiles \in SUBSET AllStages
    BY DEF Profiles, AllStages, First, Stages
  <1>3. Down(Profiles) \in Steps /\ Down(AllStages \ Profiles) \in Steps
    BY <1>2, ControlSteps DEF Steps
  <1>4. \A s \in Steps : << s >> \in Seq(Steps)
    OBVIOUS
  <1>5. QED
    BY <1>1, <1>3, <1>4, Zenon

LEMMA ThreeSteps ==
  ASSUME NEW a, NEW b, NEW c
  PROVE  << a, b, c >> = << a >> \o (<< b >> \o (<< c >> \o <<>>))
  <1> DEFINE S == {a, b, c}
  <1>1. << a >> \in Seq(S) /\ << b >> \in Seq(S) /\ << c >> \in Seq(S) /\ << b, c >> \in Seq(S)
        /\ << a, b, c >> \in Seq(S)
    OBVIOUS
  <1> HIDE DEF S
  <1>2. << c >> \o <<>> = << c >>
    BY <1>1, ConcatEmptySeq
  <1>3. << b >> \o << c >> = << b, c >>
    <2>1. /\ << b >> \o << c >> \in Seq(S) /\ Len(<< b >> \o << c >>) = 2
          /\ (<< b >> \o << c >>)[1] = b /\ (<< b >> \o << c >>)[2] = c
      BY <1>1, ConcatProperties
    <2>2. Len(<< b, c >>) = 2 /\ << b, c >>[1] = b /\ << b, c >>[2] = c
      OBVIOUS
    <2> DEFINE s == << b >> \o << c >>
               u == << b, c >>
    <2>3. s \in Seq(S) /\ u \in Seq(S) /\ Len(s) = Len(u) /\ \A i \in 1 .. Len(s) : s[i] = u[i]
      BY <1>1, <2>1, <2>2
    <2> HIDE DEF s, u
    <2>4. s = u
      BY <2>3, SeqEqual
    <2>5. QED
      BY <2>4 DEF s, u
  <1>4. << a >> \o << b, c >> = << a, b, c >>
    <2>1. /\ << a >> \o << b, c >> \in Seq(S) /\ Len(<< a >> \o << b, c >>) = 3
          /\ (<< a >> \o << b, c >>)[1] = a /\ (<< a >> \o << b, c >>)[2] = b
          /\ (<< a >> \o << b, c >>)[3] = c
      BY <1>1, ConcatProperties
    <2>2. /\ Len(<< a, b, c >>) = 3 /\ << a, b, c >>[1] = a
          /\ << a, b, c >>[2] = b /\ << a, b, c >>[3] = c
      OBVIOUS
    <2> DEFINE s == << a >> \o << b, c >>
               u == << a, b, c >>
    <2>3. s \in Seq(S) /\ u \in Seq(S) /\ Len(s) = Len(u) /\ \A i \in 1 .. Len(s) : s[i] = u[i]
      BY <1>1, <2>1, <2>2
    <2> HIDE DEF s, u
    <2>4. s = u
      BY <2>3, SeqEqual
    <2>5. QED
      BY <2>4 DEF s, u
  <1>5. QED
    BY <1>2, <1>3, <1>4

\* The start of a conversation is all that is to go at its first place.
LEMMA ConversePlace ==
  ASSUME NEW c \in {Voice, Bad}
  PROVE  /\ Converse(c) \in Seq(Steps) /\ Converse(c) = ToGo("pause", Converse(c))
         /\ Setting(Converse(c)) \in Seq(PlainStep)
  <1> DEFINE d == IF Converse(c) = Converse(Bad) THEN Bad ELSE Voice
             hush == << Sets("run", FALSE) >>
             take == << Simple("takeOutput") >>
             rec == << Simple("record") >>
             last == << Simple("record"), Sets("active", TRUE), Sets("socket", TRUE) >>
             conf == Reconfigure(d, "I2S_ADC")
  <1>0. Converse(c) = Converse(d) /\ d \in {Voice, Bad}
    OBVIOUS
  <1>1. Setting(Converse(c)) = conf \o rec
    BY DEF Setting
  <1>2. rec \in Seq(PlainStep) /\ conf \in Seq(PlainStep)
    <2>1. d \in Configs /\ "I2S_ADC" \in Modes
      BY <1>0 DEF Configs, Modes
    <2>2. Simple("record") \in PlainStep
      BY PlainSteps
    <2> HIDE DEF d
    <2>3. QED
      BY <2>1, <2>2, PlainSequences
  <1>3. /\ hush \in Seq(Steps) /\ take \in Seq(Steps)
        /\ << Sets("active", TRUE) >> \in Seq(Steps) /\ << Sets("socket", TRUE) >> \in Seq(Steps)
    BY ControlSequences
  <1>4. Open \in Seq(Steps)
    <2>1. Opened \in Seq(Steps)
      BY <1>3, EmptySeq, Joined DEF Opened
    <2>2. QED
      BY <1>3, <2>1, Joined DEF Open
  <1>5. last = rec \o Open
    BY ThreeSteps DEF Open, Opened
  <1>6. << Sets("run", FALSE), Simple("takeOutput") >> = hush \o take
    BY TwoSteps
  <1>7. Converse(d) = ((hush \o take) \o conf) \o (rec \o Open)
    BY <1>5, <1>6 DEF Converse, Sets
  <1>8. ToGo("pause", Converse(c)) = hush \o (take \o ((conf \o rec) \o Open))
    BY <1>1 DEF ToGo, Take
  <1>9. rec \in Seq(Steps) /\ conf \in Seq(Steps) /\ conf \o rec \in Seq(PlainStep)
    BY <1>2, PlainIsStep, ConcatProperties
  <1> DEFINE end == rec \o Open
  <1>10. end \in Seq(Steps)
    BY <1>4, <1>9, Joined
  <1>11. (conf \o rec) \o Open = conf \o end
    BY <1>4, <1>9, Joined
  <1>12. SameOf4(hush, take, conf, end) /\ (hush \o take) \o conf \in Seq(Steps)
    <2> HIDE DEF hush, take, conf, end
    <2>1. hush \o take \in Seq(Steps)
      BY <1>3, Joined
    <2>2. QED
      BY <1>3, <1>9, <1>10, <2>1, Joined, Joined4
  <1> HIDE DEF hush, take, conf, end, rec, d
  <1>13. Converse(c) = ToGo("pause", Converse(c))
    BY <1>0, <1>7, <1>8, <1>11, <1>12, Zenon DEF SameOf4, end
  <1>14. Converse(c) \in Seq(Steps)
    <2>1. ((hush \o take) \o conf) \o end \in Seq(Steps)
      BY <1>10, <1>12, Joined
    <2>2. QED
      BY <1>0, <1>7, <2>1 DEF end
  <1>15. QED
    BY <1>1, <1>9, <1>13, <1>14

LEMMA NextSteps ==
  /\ \A x \in Nexts : x \in Seq(Steps) /\ Setting(x) \in Seq(PlainStep)
  /\ \A x \in Nexts : x # <<>> => x = ToGo("pause", x)
  <1>1. \A c \in {Voice, Bad} :
           /\ Converse(c) \in Seq(Steps) /\ Converse(c) = ToGo("pause", Converse(c))
           /\ Setting(Converse(c)) \in Seq(PlainStep)
    BY ConversePlace
  <1>2. Setting(<<>>) \in Seq(PlainStep)
    <2> DEFINE d == IF <<>> = Converse(Bad) THEN Bad ELSE Voice
    <2>1. d \in Configs /\ "I2S_ADC" \in Modes
      BY DEF Configs, Modes
    <2>2. << Simple("record") >> \in Seq(PlainStep)
      BY PlainSteps
    <2> HIDE DEF d
    <2>3. Reconfigure(d, "I2S_ADC") \in Seq(PlainStep)
      BY <2>1, PlainSequences
    <2>4. QED
      BY <2>2, <2>3, ConcatProperties DEF Setting, d
  <1>3. QED
    BY <1>1, <1>2, EmptySeq DEF Nexts

\* What a task still has to do, one step at a time.
First1(a) ==
  CASE a \in {"pause", "hush"} -> Sets("run", FALSE)
    [] a \in {"resume", "regain", "return"} -> Sets("run", TRUE)
    [] a = "take" -> Simple("takeOutput")
    [] a = "lend" -> Simple("lend")
    [] a = "lent" -> Simple("started")
    [] a = "open" -> Sets("active", TRUE)
    [] a = "opened" -> Sets("socket", TRUE)
    [] a \in {"close", "refuse"} -> Sets("active", FALSE)
    [] a \in {"closed", "refused"} -> Sets("socket", FALSE)
    [] a \in {"failFirst", "downFirst"} -> Down(Profiles)
    [] a \in {"failLast", "downLast"} -> Down(AllStages \ Profiles)
    [] a = "parting" -> Simple("handBack")
    [] a = "parted" -> Simple("notStarted")
    [] a \in {"bring", "on", "notOn", "off"} -> Simple(a)

Rest1(a, x) ==
  CASE a = "pause" -> ToGo("take", x)
    [] a = "take" -> Setting(x) \o ToGo("open", x)
    [] a = "open" -> ToGo("opened", x)
    [] a = "resume" -> ToGo("close", x)
    [] a = "regain" -> ToGo("refuse", x)
    [] a = "return" -> ToGo("parted", x)
    [] a = "hush" -> ToGo("lend", x)
    [] a = "close" -> ToGo("closed", x)
    [] a = "refuse" -> ToGo("refused", x)
    [] a = "closed" -> Speak \o <<>>
    [] a = "refused" -> Speak \o Ended
    [] a = "failFirst" -> ToGo("failLast", x)
    [] a = "failLast" -> ToGo("notOn", x)
    [] a = "downFirst" -> ToGo("downLast", x)
    [] a = "downLast" -> ToGo("parting", x)
    [] a \in {"parting", "parted"} -> Say \o ToGo("off", x)
    [] a = "off" -> x
    [] a \in {"on", "notOn"} -> Say
    [] a \in {"opened", "bring", "lend", "lent"} -> <<>>

LEMMA Unfold ==
  ASSUME NEW a \in Places \ {"none"}, NEW x
  PROVE  ToGo(a, x) = << First1(a) >> \o Rest1(a, x)
  <1>1. CASE a \in Talking
    BY <1>1 DEF ToGo, First1, Rest1, Talking, Opened, Open, Take, Closed, Close
  <1>2. CASE a \in Refusing \cup Lending
    BY <1>2 DEF ToGo, First1, Rest1, Refusing, Lending, Closed, Close
  <1>3. CASE a \in Starting \cup Stopping
    BY <1>3 DEF ToGo, First1, Rest1, Starting, Stopping, NotOn, FailLast, DownFirst, DownLast,
       Parting, Return, Parted, Off
  <1>4. QED
    BY <1>1, <1>2, <1>3 DEF Places

LEMMA First1Type == \A a \in Places \ {"none"} : First1(a) \in ControlStep
  <1>1. ASSUME NEW a \in {"failFirst", "downFirst", "failLast", "downLast"}
        PROVE  First1(a) \in ControlStep
    <2>1. Profiles \subseteq AllStages
      BY DEF Profiles, AllStages, First, Stages
    <2>2. QED
      BY <2>1, ControlSteps DEF First1
  <1>2. ASSUME NEW a \in Talking \cup Refusing \cup Lending PROVE First1(a) \in ControlStep
    BY ControlSteps DEF First1, Talking, Refusing, Lending
  <1>3. ASSUME NEW a \in {"bring", "on", "notOn", "parting", "return", "parted", "off"}
        PROVE  First1(a) \in ControlStep
    BY ControlSteps DEF First1
  <1>4. QED
    BY <1>1, <1>2, <1>3 DEF Places, Starting, Stopping

LEMMA ToGoType == \A a \in Places, x \in Nexts : ToGo(a, x) \in Seq(Steps)
  <1> SUFFICES ASSUME NEW x \in Nexts PROVE \A a \in Places : ToGo(a, x) \in Seq(Steps)
    OBVIOUS
  <1>1. \A a \in Places \ {"none"} : First1(a) \in Steps
    BY First1Type DEF Steps
  <1>2. ASSUME NEW a \in Places \ {"none"}, Rest1(a, x) \in Seq(Steps)
        PROVE  ToGo(a, x) \in Seq(Steps)
    <2>1. << First1(a) >> \o Rest1(a, x) \in Seq(Steps)
      BY <1>1, <1>2, HeadAndRest
    <2>2. QED
      BY <2>1, Unfold
  <1>3. /\ <<>> \in Seq(Steps) /\ Speak \o <<>> \in Seq(Steps) /\ Speak \o Ended \in Seq(Steps)
        /\ Say \in Seq(Steps) /\ x \in Seq(Steps) /\ Setting(x) \in Seq(Steps)
    BY PlainSequences, PlainIsStep, NextSteps, ConcatProperties
  <1>4. {"opened", "closed", "refused", "notOn", "on", "bring", "off", "lend", "lent"}
          \subseteq Places \ {"none"}
    BY DEF Places, Talking, Refusing, Starting, Stopping, Lending
  <1>5. \A a \in {"opened", "closed", "refused", "notOn", "on", "bring", "off", "lend", "lent"} :
           ToGo(a, x) \in Seq(Steps)
    BY <1>2, <1>3, <1>4 DEF Rest1
  <1>6. Say \o ToGo("off", x) \in Seq(Steps)
    BY <1>3, <1>5, ConcatProperties
  <1>7. {"open", "close", "refuse", "failLast", "parting", "parted", "downLast", "downFirst",
         "failFirst", "hush", "take", "pause", "resume", "regain", "return"}
          \subseteq Places \ {"none"}
    BY DEF Places, Talking, Refusing, Starting, Stopping, Lending
  <1>8. \A a \in {"open", "close", "refuse", "failLast", "parting", "parted", "hush"} :
           ToGo(a, x) \in Seq(Steps)
    BY <1>2, <1>5, <1>6, <1>7 DEF Rest1
  <1>9. Setting(x) \o ToGo("open", x) \in Seq(Steps)
    BY <1>3, <1>8, ConcatProperties
  <1>10. \A a \in {"downLast", "failFirst", "take", "resume", "regain", "return"} :
            ToGo(a, x) \in Seq(Steps)
    BY <1>2, <1>7, <1>8, <1>9 DEF Rest1
  <1>11. ToGo("downFirst", x) \in Seq(Steps) /\ ToGo("pause", x) \in Seq(Steps)
    BY <1>2, <1>7, <1>10 DEF Rest1
  <1>12. ToGo("none", x) \in Seq(Steps)
    BY <1>3 DEF ToGo
  <1>13. QED
    BY <1>5, <1>8, <1>10, <1>11, <1>12
    DEF Places, Talking, Refusing, Starting, Stopping, Lending

-----------------------------------------------------------------------------
(* Where a task is, and what it still has to do.                             *)

LEMMA RestType ==
  ASSUME NEW a \in Places \ {"none"}, NEW x \in Nexts
  PROVE  Rest1(a, x) \in Seq(Steps)
  <1>1. /\ <<>> \in Seq(Steps) /\ Speak \o <<>> \in Seq(Steps) /\ Speak \o Ended \in Seq(Steps)
        /\ Say \in Seq(Steps) /\ x \in Seq(Steps) /\ Setting(x) \in Seq(Steps)
    BY PlainSequences, PlainIsStep, NextSteps, ConcatProperties
  <1>2. \A b \in {"opened", "closed", "refused", "failLast", "notOn", "downLast", "parting",
                  "off", "take", "open", "close", "refuse", "parted", "lend"} :
           ToGo(b, x) \in Seq(Steps)
    BY ToGoType DEF Places, Talking, Refusing, Starting, Stopping, Lending
  <1>3. Say \o ToGo("off", x) \in Seq(Steps) /\ Setting(x) \o ToGo("open", x) \in Seq(Steps)
    BY <1>1, <1>2, ConcatProperties
  <1>4. QED
    BY <1>1, <1>2, <1>3 DEF Rest1, Places, Talking, Refusing, Starting, Stopping, Lending

LEMMA HeadRestored ==
  ASSUME NEW S, NEW s \in Seq(S), s # <<>>
  PROVE  s = << Head(s) >> \o Tail(s)
  <1>1. Len(s) \in Nat \ {0} /\ Head(s) \in S /\ Tail(s) \in Seq(S)
    BY EmptySeq, HeadTailProperties
  <1>2. SubSeq(s, 1, Len(s)) = << s[1] >> \o SubSeq(s, 1 + 1, Len(s))
    BY <1>1, SubSeqRecursiveFirst
  <1>3. SubSeq(s, 1, Len(s)) = s /\ Tail(s) = SubSeq(s, 2, Len(s)) /\ Head(s) = s[1]
    BY SubSeqFull, TailIsSubSeq
  <1>4. QED
    BY <1>2, <1>3

LEMMA LeadsMore ==
  ASSUME NEW e \in Seq(PlainStep), NEW s, NEW q \in Seq(Steps), Leads(s, q)
  PROVE  Leads(e \o s, q)
  <1>1. PICK p \in Seq(PlainStep) : s = p \o q
    BY DEF Leads
  <1>2. e \in Seq(Steps) /\ p \in Seq(Steps) /\ e \o p \in Seq(PlainStep)
    BY PlainIsStep, ConcatProperties
  <1>3. (e \o p) \o q = e \o (p \o q)
    BY <1>2, ConcatAssociative
  <1>4. QED
    BY <1>1, <1>2, <1>3 DEF Leads

LEMMA LeadsItself ==
  /\ \A q \in Seq(Steps) : Leads(q, q)
  /\ \A e \in Seq(PlainStep) : Leads(e, <<>>)
  /\ \A e \in Seq(PlainStep), q \in Seq(Steps) : Leads(e \o q, q)
  <1>1. \A q \in Seq(Steps) : <<>> \o q = q
    BY ConcatEmptySeq
  <1>2. \A e \in Seq(PlainStep) : e \o <<>> = e
    BY ConcatEmptySeq
  <1>3. QED
    BY <1>1, <1>2, PlainSequences DEF Leads

\* The head of what a task has to do is a plain step, and it stays where it is,
\* or it is the step the task is at.
LEMMA NextStep ==
  ASSUME NEW s, s # <<>>, NEW a \in Places, NEW x \in Nexts, Leads(s, ToGo(a, x))
  PROVE  \/ /\ Head(s) \in PlainStep
            /\ \A e \in Seq(PlainStep) : Leads(e \o Tail(s), ToGo(a, x))
         \/ a # "none" /\ Head(s) = First1(a) /\ Tail(s) = Rest1(a, x)
  <1> DEFINE q == ToGo(a, x)
  <1>1. PICK p \in Seq(PlainStep) : s = p \o q
    BY DEF Leads
  <1>2. q \in Seq(Steps) /\ p \in Seq(Steps)
    BY ToGoType, PlainIsStep
  <1>3. CASE p = <<>>
    <2>1. s = q
      BY <1>1, <1>2, <1>3, ConcatEmptySeq
    <2>2. a # "none"
      BY <2>1 DEF ToGo
    <2>3. First1(a) \in Steps /\ q = << First1(a) >> \o Rest1(a, x)
      BY <2>2, First1Type, Unfold DEF Steps
    <2>4. Rest1(a, x) \in Seq(Steps)
      BY <2>2, RestType
    <2>5. Head(q) = First1(a) /\ Tail(q) = Rest1(a, x)
      BY <2>3, <2>4, HeadAndRest
    <2>6. QED
      BY <2>1, <2>2, <2>5
  <1>4. CASE p # <<>>
    <2> HIDE DEF q
    <2>1. Head(p) \in PlainStep /\ Tail(p) \in Seq(PlainStep)
      BY <1>4, HeadTailProperties
    <2>2. p = << Head(p) >> \o Tail(p)
      BY <1>4, HeadRestored
    <2>3. Head(p) \in Steps /\ Tail(p) \in Seq(Steps) /\ << Head(p) >> \in Seq(Steps)
      BY <2>1, PlainIsStep DEF Steps
    <2>4. s = << Head(p) >> \o (Tail(p) \o q)
      BY <1>1, <1>2, <2>2, <2>3, ConcatAssociative
    <2>5. Tail(p) \o q \in Seq(Steps)
      BY <1>2, <2>3, ConcatProperties
    <2>6. Head(s) = Head(p) /\ Tail(s) = Tail(p) \o q
      BY <2>3, <2>4, <2>5, HeadAndRest
    <2>7. Leads(Tail(s), q)
      BY <2>1, <2>6 DEF Leads
    <2>8. \A e \in Seq(PlainStep) : Leads(e \o Tail(s), q)
      BY <1>2, <2>7, LeadsMore
    <2>9. QED
      BY <2>1, <2>6, <2>8 DEF q
  <1>5. QED
    BY <1>3, <1>4

LEMMA NothingLeft ==
  ASSUME NEW a \in Places, NEW x \in Nexts, Leads(<<>>, ToGo(a, x))
  PROVE  a = "none"
  <1>1. PICK p \in Seq(PlainStep) : <<>> = p \o ToGo(a, x)
    BY DEF Leads
  <1>2. p \in Seq(Steps) /\ ToGo(a, x) \in Seq(Steps)
    BY ToGoType, PlainIsStep
  <1> DEFINE q == ToGo(a, x)
  <1>3. q = <<>>
    <2> HIDE DEF q
    <2>1. q \in Seq(Steps) /\ p \o q = <<>>
      BY <1>1, <1>2 DEF q
    <2>2. QED
      BY <1>2, <2>1, ConcatEqualIffEmpty
  <1>4. ASSUME a # "none" PROVE FALSE
    <2>1. First1(a) \in Steps /\ ToGo(a, x) = << First1(a) >> \o Rest1(a, x)
      BY <1>4, First1Type, Unfold DEF Steps
    <2>2. Rest1(a, x) \in Seq(Steps)
      BY <1>4, RestType
    <2>3. QED
      BY <1>3, <2>1, <2>2, HeadAndRest
  <1>5. QED
    BY <1>4

\* A place and the next one.
After(a, x) ==
  CASE a = "pause" -> "take"
    [] a = "take" -> "open"
    [] a = "open" -> "opened"
    [] a = "resume" -> "close"
    [] a = "regain" -> "refuse"
    [] a = "return" -> "parted"
    [] a = "hush" -> "lend"
    [] a = "close" -> "closed"
    [] a = "refuse" -> "refused"
    [] a = "failFirst" -> "failLast"
    [] a = "failLast" -> "notOn"
    [] a = "downFirst" -> "downLast"
    [] a = "downLast" -> "parting"
    [] a \in {"parting", "parted"} -> "off"
    [] a = "off" /\ x # <<>> -> "pause"
    [] OTHER -> "none"

LEMMA GoesOn ==
  ASSUME NEW a \in Places \ {"none"}, NEW x \in Nexts
  PROVE  After(a, x) \in Places /\ Leads(Rest1(a, x), ToGo(After(a, x), x))
  <1>1. After(a, x) \in Places
    BY DEF After, Places, Talking, Refusing, Starting, Stopping, Lending
  <1>2. CASE a \in {"pause", "open", "resume", "regain", "return", "hush", "close", "refuse",
                    "failFirst", "failLast", "downFirst", "downLast"}
    <2>1. Rest1(a, x) = ToGo(After(a, x), x)
      BY <1>2 DEF Rest1, After
    <2>2. QED
      BY <1>1, <2>1, ToGoType, LeadsItself
  <1>t. CASE a = "take"
    <2>1. Rest1(a, x) = Setting(x) \o ToGo("open", x) /\ After(a, x) = "open"
      BY <1>t DEF Rest1, After
    <2>2. QED
      BY <1>1, <2>1, ToGoType, LeadsItself, NextSteps
  <1>3. CASE a \in {"parting", "parted"}
    <2>1. Rest1(a, x) = Say \o ToGo("off", x) /\ After(a, x) = "off"
      BY <1>3 DEF Rest1, After
    <2>2. QED
      BY <1>1, <2>1, ToGoType, LeadsItself, PlainSequences
  <1>4. CASE a = "off"
    <2>1. Rest1(a, x) = x /\ After(a, x) = IF x = <<>> THEN "none" ELSE "pause"
      BY <1>4 DEF Rest1, After
    <2>2. CASE x = <<>>
      <3>1. ToGo("none", x) = <<>>
        BY DEF ToGo
      <3>2. QED
        BY <1>1, <2>1, <2>2, <3>1, LeadsItself, PlainSequences
    <2>3. CASE x # <<>>
      <3>1. x = ToGo(After(a, x), x) /\ x \in Seq(Steps)
        BY <2>1, <2>3, NextSteps
      <3>2. Leads(x, x)
        BY <3>1, LeadsItself
      <3>3. QED
        BY <1>1, <2>1, <3>1, <3>2
    <2>4. QED
      BY <2>2, <2>3
  <1>5. CASE a \in {"opened", "closed", "refused", "bring", "on", "notOn", "lend", "lent"}
    <2>1. After(a, x) = "none" /\ ToGo("none", x) = <<>>
      BY <1>5 DEF After, ToGo
    <2>2. Rest1(a, x) \in {<<>>, Say, Speak \o <<>>, Speak \o Ended}
      BY <1>5 DEF Rest1
    <2>3. Rest1(a, x) \in Seq(PlainStep)
      BY <2>2, PlainSequences, ConcatProperties
    <2>4. QED
      BY <1>1, <2>1, <2>3, LeadsItself
  <1>6. QED
    BY <1>2, <1>t, <1>3, <1>4, <1>5 DEF Places, Talking, Refusing, Starting, Stopping, Lending

\* A task that is to say something of the conversation is in it.
Says(s) == \E i \in DOMAIN s : s[i].op \in {"active", "socket"}

LEMMA SaysLater ==
  ASSUME NEW p \in Seq(Steps), NEW q \in Seq(Steps), Says(q)
  PROVE  Says(p \o q)
  <1>1. PICK i \in DOMAIN q : q[i].op \in {"active", "socket"}
    BY DEF Says
  <1>2. /\ i \in 1 .. Len(q) /\ Len(p) \in Nat /\ Len(q) \in Nat
        /\ DOMAIN (p \o q) = 1 .. Len(p) + Len(q)
    BY <1>1, LenProperties, ConcatProperties
  <1>3. (p \o q)[Len(p) + i] = q[i]
    <2>1. Len(p) + i \in 1 .. Len(p) + Len(q) /\ ~(Len(p) + i <= Len(p)) /\ Len(p) + i - Len(p) = i
      BY <1>2
    <2>2. QED
      BY <2>1, ConcatProperties
  <1>4. QED
    BY <1>1, <1>2, <1>3 DEF Says

LEMMA SaysAt ==
  ASSUME NEW a \in Places, NEW x \in Nexts, Talks(a, x)
  PROVE  Says(ToGo(a, x))
  <1>1. \A b \in Places \ {"none"} :
           /\ << First1(b) >> \in Seq(Steps) /\ Rest1(b, x) \in Seq(Steps)
           /\ ToGo(b, x) = << First1(b) >> \o Rest1(b, x)
    BY First1Type, RestType, Unfold DEF Steps
  <1>2. ASSUME NEW b \in {"open", "opened", "close", "closed", "refuse", "refused"}
        PROVE  Says(ToGo(b, x))
    <2>1. b \in Places \ {"none"}
      BY DEF Places, Talking, Refusing
    <2>2. First1(b).op \in {"active", "socket"}
      BY DEF First1, Sets
    <2> DEFINE h == << First1(b) >>
               r == Rest1(b, x)
    <2>3. h \in Seq(Steps) /\ r \in Seq(Steps) /\ Len(h) = 1 /\ h[1] = First1(b)
      BY <1>1, <2>1
    <2> HIDE DEF h, r
    <2>4. Len(r) \in Nat /\ DOMAIN (h \o r) = 1 .. Len(h) + Len(r)
      <3>1. Len(r) \in Nat
        BY <2>3, LenProperties
      <3>2. h \o r \in Seq(Steps) /\ Len(h \o r) = Len(h) + Len(r)
        BY <2>3, ConcatProperties
      <3>3. DOMAIN (h \o r) = 1 .. Len(h \o r)
        BY <3>2, LenProperties
      <3>4. QED
        BY <3>1, <3>2, <3>3
    <2>5. (h \o r)[1] = First1(b)
      BY <2>3, <2>4, ConcatProperties
    <2>6. Says(h \o r)
      BY <2>2, <2>3, <2>4, <2>5 DEF Says
    <2>7. QED
      BY <1>1, <2>1, <2>6 DEF h, r
  <1>3. ASSUME NEW b \in Places \ {"none"}, Says(Rest1(b, x)) PROVE Says(ToGo(b, x))
    BY <1>1, <1>3, SaysLater
  <1>t. /\ \A b \in {"pause", "take", "resume", "regain"} : Says(ToGo(b, x))
    <2>1. {"pause", "take", "resume", "regain", "open"} \subseteq Places \ {"none"}
      BY DEF Places, Talking, Refusing
    <2>2. Says(Setting(x) \o ToGo("open", x))
      <3>1. Says(ToGo("open", x)) /\ ToGo("open", x) \in Seq(Steps)
        BY <1>2, <2>1, ToGoType
      <3>2. Setting(x) \in Seq(Steps)
        BY NextSteps, PlainIsStep
      <3>3. QED
        BY <3>1, <3>2, SaysLater
    <2>3. \A b \in {"take", "resume", "regain"} : Says(ToGo(b, x))
      BY <1>2, <1>3, <2>1, <2>2 DEF Rest1
    <2>4. Says(ToGo("pause", x))
      BY <1>3, <2>1, <2>3 DEF Rest1
    <2>5. QED
      BY <2>3, <2>4
  <1>4. ASSUME a \in Stopping, x # <<>> PROVE Says(ToGo(a, x))
    <2>1. {"off", "parting", "return", "parted", "downLast", "downFirst"}
          \subseteq Places \ {"none"}
      BY DEF Places, Stopping
    <2>3. Says(x)
      BY <1>4, <1>t, NextSteps
    <2>4. Says(ToGo("off", x))
      BY <1>3, <2>1, <2>3 DEF Rest1
    <2>5. Says(Say \o ToGo("off", x))
      BY <2>1, <2>4, SaysLater, ToGoType, PlainSequences, PlainIsStep
    <2>6. Says(ToGo("parting", x)) /\ Says(ToGo("parted", x))
      BY <1>3, <2>1, <2>5 DEF Rest1
    <2>7. Says(ToGo("downLast", x)) /\ Says(ToGo("return", x))
      BY <1>3, <2>1, <2>6 DEF Rest1
    <2>8. Says(ToGo("downFirst", x))
      BY <1>3, <2>1, <2>7 DEF Rest1
    <2>9. QED
      BY <1>4, <2>4, <2>6, <2>7, <2>8 DEF Stopping
  <1>5. QED
    BY <1>2, <1>t, <1>4 DEF Talks, Talking, Refusing

LEMMA TalkersAreIn ==
  ASSUME NEW t \in Tasks, NEW a \in Places, NEW x \in Nexts, Leads(todo[t], ToGo(a, x)),
         Talks(a, x)
  PROVE  InConversation(t)
  <1>1. PICK p \in Seq(PlainStep) : todo[t] = p \o ToGo(a, x)
    BY DEF Leads
  <1>2. Says(todo[t])
    BY <1>1, SaysAt, SaysLater, ToGoType, PlainIsStep
  <1>3. QED
    BY <1>2 DEF Says, InConversation

-----------------------------------------------------------------------------
(* Steps that leave the conversation and Bluetooth alone.                    *)

\* The places a task may be at.
PlacesOf(t) ==
  IF t = "main" THEN MainPlaces
  ELSE IF t \in Recorders THEN {"none"} \cup Refusing
  ELSE IF t = "radio" THEN {"none"} \cup Lending ELSE {"none"}

LEMMA PlacedNext ==
  ASSUME SoundAssumption, DOMAIN todo = Tasks, NEW at, NEW x, Placed(at, x),
         NEW t \in Tasks, NEW b \in PlacesOf(t), NEW y \in Nexts, NEW s,
         y = x \/ t = "main", Leads(s, ToGo(b, y)), todo' = [todo EXCEPT ![t] = s]
  PROVE  Placed([at EXCEPT ![t] = b], y)'
  <1> DEFINE to == [at EXCEPT ![t] = b]
  <1>1. /\ "main" \in Tasks \ Recorders /\ "radio" \in Tasks \ Recorders
        /\ "play" \in Tasks \ Recorders /\ Recorders \subseteq Tasks
    BY DEF Tasks, SoundAssumption
  <1>2. \A u \in Tasks : todo'[u] = IF u = t THEN s ELSE todo[u]
    OBVIOUS
  <1>3. b \in Places
    BY DEF PlacesOf, MainPlaces, Places
  <1>4. at \in [Tasks -> Places]
    BY DEF Placed
  <1>5. to \in [Tasks -> Places] /\ \A u \in Tasks : to[u] = IF u = t THEN b ELSE at[u]
    BY <1>3, <1>4
  <1> HIDE DEF to
  <1>6. /\ to["main"] \in MainPlaces /\ to["radio"] \in {"none"} \cup Lending
        /\ to["play"] = "none" /\ \A r \in Recorders : to[r] \in {"none"} \cup Refusing
    BY <1>1, <1>5 DEF Placed, PlacesOf
  <1>7. ASSUME NEW u \in Tasks PROVE Leads(todo'[u], ToGo(to[u], y))
    <2>1. CASE u = t
      BY <1>2, <1>5, <2>1
    <2>2. CASE u # t
      <3>1. Leads(todo[u], ToGo(at[u], x))
        BY DEF Placed
      <3>2. ToGo(at[u], y) = ToGo(at[u], x)
        <4>1. CASE y = x
          BY <4>1
        <4>2. CASE t = "main"
          <5>1. at[u] \in {"none"} \cup Refusing \cup Lending
            BY <2>2, <4>2 DEF Placed, Tasks
          <5>2. QED
            BY <5>1 DEF ToGo, Refusing, Lending
        <4>3. QED
          BY <4>1, <4>2
      <3>3. QED
        BY <1>2, <1>5, <2>2, <3>1, <3>2
    <2>3. QED
      BY <2>1, <2>2
  <1>8. (\A u \in Tasks : Leads(todo[u], ToGo(to[u], y)))'
    BY <1>7 DEF Leads
  <1>9. Placed(to, y)'
    BY <1>5, <1>6, <1>8 DEF Placed
  <1>10. QED
    BY <1>9 DEF to

\* A task that has something to do: the step is a plain one, or the one of its place.
LEMMA TaskStep ==
  ASSUME DOMAIN todo = Tasks, NEW at, NEW x, Placed(at, x), NEW t \in Tasks, Busy(t)
  PROVE  /\ Head(todo[t]) \in Steps
         /\ \/ /\ Head(todo[t]) \in PlainStep
               /\ \A e \in Seq(PlainStep) : Leads(e \o Tail(todo[t]), ToGo(at[t], x))
            \/ /\ at[t] # "none" /\ Head(todo[t]) = First1(at[t]) /\ Head(todo[t]) \notin PlainStep
               /\ Tail(todo[t]) = Rest1(at[t], x)
  <1>1. at[t] \in Places /\ x \in Nexts /\ Leads(todo[t], ToGo(at[t], x))
    BY DEF Placed
  <1>2. \/ /\ Head(todo[t]) \in PlainStep
           /\ \A e \in Seq(PlainStep) : Leads(e \o Tail(todo[t]), ToGo(at[t], x))
        \/ at[t] # "none" /\ Head(todo[t]) = First1(at[t]) /\ Tail(todo[t]) = Rest1(at[t], x)
    BY <1>1, NextStep DEF Busy
  <1>3. at[t] # "none" => First1(at[t]) \in ControlStep
    BY <1>1, First1Type
  <1>4. \A s \in ControlStep : s \in Steps /\ s \notin PlainStep
    BY StepOps DEF Steps
  <1>5. QED
    BY <1>2, <1>3, <1>4 DEF Steps

\* A task with nothing to do is nowhere.
LEMMA TaskFree ==
  ASSUME NEW at, NEW x, Placed(at, x), NEW t \in Tasks, ~Busy(t)
  PROVE  at[t] = "none"
  BY NothingLeft DEF Placed, Busy

\* The stack does not mind a task of Bluetooth that has something to do, while it
\* has, and while it may be called.
LEMMA StackStays ==
  ASSUME NEW a, Stack(a), UNCHANGED <<active, bt, up>>,
         todo'["radio"] = todo["radio"] \/ ~Unheard
  PROVE  Stack(a)'
  <1>1. Unheard => Unheard'
    BY DEF Unheard
  <1>2. Noted' = Noted
    BY DEF Noted
  <1>3. QED
    BY <1>1, <1>2 DEF Stack, StackOff

LEMMA PlainOrdered ==
  ASSUME SoundAssumption, DOMAIN todo = Tasks, NEW at, NEW x, Ordered(at, x),
         NEW t \in Tasks, Busy(t), Head(todo[t]) \in PlainStep, NEW e \in Seq(PlainStep),
         todo' = [todo EXCEPT ![t] = e \o Tail(@)],
         UNCHANGED <<active, socket, bt, up, run, valid, crashed>>
  PROVE  Ordered(at, x)'
  <1>1. at \in [Tasks -> Places] /\ at[t] \in PlacesOf(t) /\ x \in Nexts /\ Placed(at, x)
    BY DEF Ordered, Placed, PlacesOf, Tasks
  <1>2. Leads(e \o Tail(todo[t]), ToGo(at[t], x))
    BY <1>1, TaskStep
  <1>3. Placed([at EXCEPT ![t] = at[t]], x)'
    BY <1>1, <1>2, PlacedNext
  <1>4. [at EXCEPT ![t] = at[t]] = at
    BY <1>1
  <1>5. Talk(at, x)'
    BY DEF Ordered, Talk, Told, Talks
  <1>6. "radio" \in Tasks /\ (t # "radio" => todo'["radio"] = todo["radio"])
    BY DEF Tasks
  <1>7. t = "radio" => ~Unheard
    BY DEF Unheard, Busy
  <1>8. Stack(at["main"])'
    BY <1>6, <1>7, StackStays DEF Ordered
  <1>9. Owned(at)'
    BY DEF Ordered, Owned, Owner, Held
  <1>10. QED
    BY <1>3, <1>4, <1>5, <1>8, <1>9 DEF Ordered

-----------------------------------------------------------------------------
(* One lemma for each part of the program.  Here is a plain step.            *)

Kept(at, x) == TypeOK /\ bt \in Links /\ Ordered(at, x)

LEMMA Fields ==
  ASSUME NEW s \in Steps
  PROVE  /\ s.op = "setup" => s.c \in Configs /\ s.m \in Modes
         /\ s.op \in {"pins", "mode", "port"} => s.m \in Modes
         /\ s.op = "port" => s.ok \in BOOLEAN
         /\ s.op \in {"run", "active", "socket"} => s.v \in BOOLEAN
  <1>1. CASE s \in PlainStep
    BY <1>1 DEF PlainStep
  <1>2. CASE s \in ControlStep
    BY <1>2 DEF ControlStep
  <1>3. QED
    BY <1>1, <1>2 DEF Steps

\* What a task is at, by the name of the step.
LEMMA AtStep ==
  ASSUME NEW at, NEW x, Kept(at, x), NEW t \in Tasks, NEW op, At(t, op)
  PROVE  /\ Busy(t) /\ Head(todo[t]) \in Steps /\ Head(todo[t]).op = op
         /\ op \in PlainOps => Head(todo[t]) \in PlainStep
         /\ op \in ControlOps =>
              /\ at[t] # "none" /\ Head(todo[t]) = First1(at[t])
              /\ Tail(todo[t]) = Rest1(at[t], x) /\ First1(at[t]).op = op
  <1>1. DOMAIN todo = Tasks /\ Placed(at, x)
    BY DEF Kept, TypeOK, Ordered
  <1>2. Busy(t) /\ Head(todo[t]).op = op
    BY DEF At, Op
  <1>3. /\ Head(todo[t]) \in Steps
        /\ \/ Head(todo[t]) \in PlainStep
           \/ /\ at[t] # "none" /\ Head(todo[t]) = First1(at[t]) /\ Head(todo[t]) \notin PlainStep
              /\ Tail(todo[t]) = Rest1(at[t], x)
    BY <1>1, <1>2, TaskStep
  <1>4. Head(todo[t]) \in PlainStep <=> op \notin ControlOps
    BY <1>2, <1>3, StepOps
  <1>5. op \in PlainOps => op \notin ControlOps
    BY DEF PlainOps, ControlOps
  <1>6. QED
    BY <1>2, <1>3, <1>4, <1>5

LEMMA PlainKept ==
  ASSUME SoundAssumption, NEW at, NEW x, Kept(at, x), NEW t \in Tasks, NEW op \in PlainOps,
         At(t, op), NEW e \in Seq(PlainStep), Continue(t, e), TypeOK',
         UNCHANGED <<active, socket, bt, up, run, valid, crashed>>
  PROVE  Kept(at, x)'
  <1>1. Busy(t) /\ Head(todo[t]) \in PlainStep
    BY AtStep
  <1>2. Ordered(at, x)'
    BY <1>1, PlainOrdered DEF Kept, TypeOK, Continue
  <1>3. QED
    BY <1>2 DEF Kept

LEMMA DriverKept ==
  ASSUME SoundAssumption, NEW at, NEW x, Kept(at, x), NEW t \in Tasks, DriverStep(t)
  PROVE  Kept(at, x)'
  <1> USE DEF driverVars, playVars, ttsVars, convVars
  <1> DEFINE s == Head(todo[t])
  <1>0. TypeOK /\ {"setup", "pins", "port", "uninstall", "mode"} \subseteq PlainOps
    BY DEF Kept, PlainOps
  <1>n. <<>> \in Seq(PlainStep)
    OBVIOUS
  <1>1. CASE Setup(t)
    <2>1. /\ At(t, "setup") /\ Continue(t, <<>>)
          /\ UNCHANGED <<active, socket, bt, up, run, valid, crashed>>
      BY <1>1 DEF Setup, Done
    <2>2. s.c \in Configs /\ s.m \in Modes
      BY <2>1, AtStep, Fields
    <2>3. icfg' \in [c : Configs \cup {None}, internal : BOOLEAN, exit : BOOLEAN]
      BY <1>0, <1>1, <2>2 DEF Setup, TypeOK, Internal
    <2>4. TypeOK'
      BY <1>0, <1>1, <2>1, <2>3 DEF Setup, Continue, TypeOK
    <2>5. QED
      BY <1>0, <1>n, <2>1, <2>4, PlainKept
  <1>2. CASE Pins(t)
    <2> DEFINE e == << [op |-> "port", m |-> s.m, ok |-> PinsReady] >>
    <2>1. /\ At(t, "pins") /\ Continue(t, e)
          /\ UNCHANGED <<active, socket, bt, up, run, valid, crashed>>
      BY <1>2 DEF Pins
    <2>2. s.m \in Modes
      BY <2>1, AtStep, Fields
    <2>3. PinsReady \in BOOLEAN
      BY <1>0 DEF PinsReady, MadeDac, MadeTx, TypeOK
    <2>4. [op |-> "port", m |-> s.m, ok |-> PinsReady] \in PlainStep
      BY <2>2, <2>3, PlainSteps
    <2>5. e \in Seq(PlainStep)
      BY <2>4
    <2>6. {dac', tx'} \subseteq (Configs \ {Bad}) \cup {None}
      BY <1>0, <1>2 DEF Pins, NewDac, MadeDac, MadeTx, Known, TypeOK
    <2>7. TypeOK'
      BY <1>0, <1>2, <2>1, <2>6 DEF Pins, Continue, TypeOK
    <2>8. QED
      BY <1>0, <2>1, <2>5, <2>7, PlainKept
  <1>3. CASE SetPort(t)
    <2>1. /\ At(t, "port") /\ Continue(t, <<>>)
          /\ UNCHANGED <<active, socket, bt, up, run, valid, crashed>>
      BY <1>3 DEF SetPort, Done
    <2>2. s.m \in Modes /\ s.ok \in BOOLEAN
      BY <2>1, AtStep, Fields
    <2>3. (IF icfg.exit THEN ~s.ok ELSE s.ok) \in BOOLEAN
      BY <2>2
    <2>4. ports' \in [Ports -> BOOLEAN]
      BY <1>0, <1>3, <2>3 DEF SetPort, TypeOK
    <2>5. icfg' \in [c : Configs \cup {None}, internal : BOOLEAN, exit : BOOLEAN]
      BY <1>0, <1>3 DEF SetPort, TypeOK
    <2>6. TypeOK'
      BY <1>0, <1>3, <2>1, <2>4, <2>5 DEF SetPort, Continue, TypeOK
    <2>7. QED
      BY <1>0, <1>n, <2>1, <2>6, PlainKept
  <1>4. CASE Uninstall(t)
    <2> DEFINE e == IF Installed THEN << [op |-> "pins", m |-> mode] >> ELSE <<>>
    <2>1. /\ At(t, "uninstall") /\ Continue(t, e)
          /\ UNCHANGED <<active, socket, bt, up, run, valid, crashed>>
      BY <1>4 DEF Uninstall
    <2>2. [op |-> "pins", m |-> mode] \in PlainStep
      BY <1>0, PlainSteps DEF TypeOK
    <2>3. e \in Seq(PlainStep)
      BY <2>2
    <2>4. icfg' \in [c : Configs \cup {None}, internal : BOOLEAN, exit : BOOLEAN]
      BY <1>0, <1>4 DEF Uninstall, TypeOK, Internal
    <2>5. TypeOK'
      BY <1>0, <1>4, <2>1, <2>4 DEF Uninstall, Continue, TypeOK
    <2>6. QED
      BY <1>0, <2>1, <2>3, <2>5, PlainKept
  <1>5. CASE SetMode(t)
    <2>1. /\ At(t, "mode") /\ Continue(t, <<>>)
          /\ UNCHANGED <<active, socket, bt, up, run, valid, crashed>>
      BY <1>5 DEF SetMode, Done
    <2>2. s.m \in Modes
      BY <2>1, AtStep, Fields
    <2>3. TypeOK'
      BY <1>0, <1>5, <2>1, <2>2 DEF SetMode, Continue, TypeOK
    <2>4. QED
      BY <1>0, <1>n, <2>1, <2>3, PlainKept
  <1>6. QED
    BY <1>1, <1>2, <1>3, <1>4, <1>5 DEF DriverStep

LEMMA SpeakKept ==
  ASSUME SoundAssumption, NEW at, NEW x, Kept(at, x), NEW t \in Tasks,
         SpeakWords(t) \/ QueueClip(t)
  PROVE  Kept(at, x)'
  <1> USE DEF driverVars, playVars, ttsVars, convVars
  <1>0. TypeOK /\ {"speak", "clip"} \subseteq PlainOps
    BY DEF Kept, PlainOps
  <1>n. <<>> \in Seq(PlainStep)
    OBVIOUS
  <1>1. CASE SpeakWords(t)
    <2>1. PICK w \in Sentences, said \in BOOLEAN :
            Continue(t, IF run /\ valid /\ said
                        THEN [i \in DOMAIN Clips(w, Package) |-> Simple("clip")] ELSE <<>>)
      BY <1>1 DEF SpeakWords
    <2> DEFINE clips == [i \in 1 .. Len(Clips(w, Package)) |-> Simple("clip")]
    <2>2. DOMAIN Clips(w, Package) = 1 .. Len(Clips(w, Package)) /\ Len(Clips(w, Package)) \in Nat
      BY DEF SoundAssumption
    <2>3. clips \in Seq(PlainStep)
      BY <2>2, PlainSteps, IsASeq
    <2> DEFINE e == IF run /\ valid /\ said THEN clips ELSE <<>>
    <2>4. Continue(t, e) /\ e \in Seq(PlainStep)
      BY <2>1, <2>2, <2>3
    <2>5. At(t, "speak") /\ UNCHANGED <<active, socket, bt, up, run, valid, crashed>>
      BY <1>1 DEF SpeakWords
    <2> HIDE DEF e
    <2>6. TypeOK'
      BY <1>0, <1>1, <2>4 DEF SpeakWords, Continue, TypeOK
    <2>7. QED
      BY <1>0, <2>4, <2>5, <2>6, PlainKept
  <1>2. CASE QueueClip(t)
    <2> DEFINE e == << [op |-> "mode", m |-> "I2S_DAC"] >> \o Rest
    <2>1. /\ At(t, "clip") /\ Continue(t, e)
          /\ UNCHANGED <<active, socket, bt, up, run, valid, crashed>>
      BY <1>2 DEF QueueClip
    <2>2. [op |-> "mode", m |-> "I2S_DAC"] \in PlainStep
      BY PlainSteps DEF Modes
    <2>3. << [op |-> "mode", m |-> "I2S_DAC"] >> \in Seq(PlainStep)
      BY <2>2
    <2>4. e \in Seq(PlainStep)
      BY <2>3, <1>n, ConcatProperties DEF Rest
    <2>5. queue' \in 0 .. QueueLen
      BY <1>0, <1>2 DEF QueueClip, Room, TypeOK, SoundAssumption
    <2>6. TypeOK'
      BY <1>0, <1>2, <2>1, <2>5 DEF QueueClip, Continue, TypeOK
    <2>7. QED
      BY <1>0, <2>1, <2>4, <2>6, PlainKept
  <1>3. QED
    BY <1>1, <1>2

-----------------------------------------------------------------------------
(* The conversation.                                                         *)

\* A step of its place done, a task is at the next place.
LEMMA DoneMoves ==
  ASSUME SoundAssumption, NEW at, NEW x, Kept(at, x), NEW t \in Tasks, NEW op \in ControlOps,
         At(t, op), Done(t)
  PROVE  /\ at[t] \in PlacesOf(t) \ {"none"} /\ First1(at[t]).op = op
         /\ Head(todo[t]) = First1(at[t])
         /\ Placed([at EXCEPT ![t] = After(at[t], x)], x)'
  <1>1. /\ DOMAIN todo = Tasks /\ Placed(at, x) /\ x \in Nexts /\ at[t] \in PlacesOf(t)
        /\ at[t] \in Places
    BY DEF Kept, TypeOK, Ordered, Placed, PlacesOf, Tasks
  <1>2. /\ at[t] # "none" /\ Head(todo[t]) = First1(at[t]) /\ First1(at[t]).op = op
        /\ Tail(todo[t]) = Rest1(at[t], x)
    BY AtStep
  <1>3. After(at[t], x) \in PlacesOf(t)
    <2>1. at[t] \in {"none"} \cup Refusing => After(at[t], x) \in {"none"} \cup Refusing
      BY DEF After, Refusing
    <2>2. at[t] \in MainPlaces => After(at[t], x) \in MainPlaces
      BY DEF After, Refusing, Places, MainPlaces, Talking, Starting, Stopping, Lending
    <2>3. at[t] \in {"none"} \cup Lending => After(at[t], x) \in {"none"} \cup Lending
      BY DEF After, Lending
    <2>4. QED
      BY <1>1, <1>2, <2>1, <2>2, <2>3 DEF PlacesOf
  <1>4. Rest1(at[t], x) \in Seq(Steps) /\ Leads(Rest1(at[t], x), ToGo(After(at[t], x), x))
    BY <1>1, <1>2, GoesOn, RestType
  <1>5. <<>> \o Tail(todo[t]) = Rest1(at[t], x)
    BY <1>2, <1>4, ConcatEmptySeq
  <1>6. todo' = [todo EXCEPT ![t] = Rest1(at[t], x)]
    BY <1>5 DEF Done, Continue
  <1> DEFINE s == Rest1(at[t], x)
             b == After(at[t], x)
  <1>7. b \in PlacesOf(t) /\ Leads(s, ToGo(b, x)) /\ todo' = [todo EXCEPT ![t] = s]
    BY <1>3, <1>4, <1>6
  <1> HIDE DEF s, b
  <1>8. Placed([at EXCEPT ![t] = b], x)'
    BY <1>1, <1>7, PlacedNext
  <1>9. QED
    BY <1>1, <1>2, <1>8 DEF b

LEMMA StepsOfPlaces ==
  ASSUME NEW a \in Places \ {"none"}
  PROVE  /\ First1(a).op = "active" <=> a \in {"open", "close", "refuse"}
         /\ First1(a).op = "socket" <=> a \in {"opened", "closed", "refused"}
         /\ First1(a).op = "down" <=> a \in {"failFirst", "failLast", "downFirst", "downLast"}
         /\ First1(a).op = "handBack" <=> a = "parting"
         /\ First1(a).op = "notStarted" <=> a = "parted"
         /\ First1(a).op = "run" <=> a \in {"pause", "resume", "regain", "return", "hush"}
         /\ First1(a).op = "takeOutput" <=> a = "take"
         /\ First1(a).op = "lend" <=> a = "lend"
         /\ First1(a).op = "started" <=> a = "lent"
         /\ \A op \in {"bring", "on", "notOn", "off"} : First1(a).op = op <=> a = op
  <1> DEFINE o == First1(a).op
  <1>1. a \in {"open", "close", "refuse"} => o = "active"
    BY DEF First1, Sets
  <1>2. a \in {"opened", "closed", "refused"} => o = "socket"
    BY DEF First1, Sets
  <1>3. a \in {"failFirst", "failLast", "downFirst", "downLast"} => o = "down"
    BY DEF First1, Down
  <1>4. (a = "parting" => o = "handBack") /\ (a = "parted" => o = "notStarted")
    BY DEF First1, Simple
  <1>5. a \in {"bring", "on", "notOn", "off"} => o = a
    BY DEF First1, Simple
  <1>6. a \in {"pause", "resume", "regain", "return", "hush"} => o = "run"
    BY DEF First1, Sets
  <1>7. /\ a = "take" => o = "takeOutput"
        /\ a = "lend" => o = "lend"
        /\ a = "lent" => o = "started"
    BY DEF First1, Simple
  <1> HIDE DEF o
  <1>8. QED
    BY <1>1, <1>2, <1>3, <1>4, <1>5, <1>6, <1>7
    DEF o, Places, Talking, Refusing, Starting, Stopping, Lending

\* Only t is in the conversation, and says what is done of it.
LEMMA TalkBy ==
  ASSUME NEW to, NEW y, NEW t \in Tasks, \A u \in Tasks \ {t} : ~Talks(to[u], y),
         to[t] \in Coming \cup Stopping /\ Talks(to[t], y) => ~active' /\ ~socket',
         to[t] = "opened" => active' /\ ~socket',
         to[t] \in Going => active' /\ socket',
         to[t] \in {"closed", "refused"} => ~active' /\ socket',
         ~Talks(to[t], y) => socket' = active'
  PROVE  Told(to, y)'
  <1>1. \A u \in Tasks : Talks(to[u], y) => u = t
    OBVIOUS
  <1>2. \A a \in {"opened", "closed", "refused"} \cup Going : Talks(a, y)
    BY DEF Talks, Talking, Refusing, Going
  <1>3. ASSUME NEW u \in Tasks
        PROVE  /\ to[u] \in Coming \cup Stopping /\ Talks(to[u], y) => ~active' /\ ~socket'
               /\ to[u] = "opened" => active' /\ ~socket'
               /\ to[u] \in Going => active' /\ socket'
               /\ to[u] \in {"closed", "refused"} => ~active' /\ socket'
    BY <1>1, <1>2
  <1>4. QED
    BY <1>1, <1>3 DEF Told, Talks

\* A task that moves and does not say more.
LEMMA TalkKept ==
  ASSUME NEW at, NEW x, Talk(at, x), NEW t \in Tasks, NEW b, at \in [Tasks -> Places],
         UNCHANGED <<active, socket>>, Talks(b, x) <=> Talks(at[t], x),
         Talks(b, x) => \/ at[t] \in Coming \cup Stopping /\ b \in Coming \cup Stopping
                        \/ at[t] \in Going /\ b \in Going
  PROVE  Talk([at EXCEPT ![t] = b], x)'
  <1> DEFINE to == [at EXCEPT ![t] = b]
  <1>1. \A u \in Tasks : to[u] = IF u = t THEN b ELSE at[u]
    OBVIOUS
  <1> HIDE DEF to
  <1>0. SUFFICES ASSUME ~Overlapping PROVE Told(to, x)'
    BY DEF Talk, to
  <1>t. Told(at, x)
    BY <1>0 DEF Talk
  <1>2. \A u \in Tasks : Talks(to[u], x) <=> Talks(at[u], x)
    BY <1>1
  <1>3. \A a \in {"opened", "closed", "refused"} \cup Going : Talks(a, x)
    BY DEF Talks, Talking, Refusing, Going
  <1>4. ASSUME NEW u \in Tasks
        PROVE  /\ to[u] \in Coming \cup Stopping /\ Talks(to[u], x) => ~active' /\ ~socket'
               /\ to[u] = "opened" => active' /\ ~socket'
               /\ to[u] \in Going => active' /\ socket'
               /\ to[u] \in {"closed", "refused"} => ~active' /\ socket'
    <2>1. CASE u # t
      BY <1>1, <1>t, <2>1 DEF Told
    <2>2. CASE u = t
      <3>1. ASSUME Talks(b, x)
            PROVE  /\ b \in Coming \cup Stopping /\ b \notin Going => ~active' /\ ~socket'
                   /\ b \in Going /\ b \notin Coming \cup Stopping => active' /\ socket'
                   /\ b \notin {"opened", "closed", "refused"}
                   /\ b \in Going \cup Coming \cup Stopping
        BY <1>t, <3>1 DEF Told, Stopping, Coming, Going
      <3>2. Going \cap (Coming \cup Stopping) = {}
        BY DEF Stopping, Coming, Going
      <3>3. QED
        BY <1>1, <1>3, <2>2, <3>1, <3>2
    <2>3. QED
      BY <2>1, <2>2
  <1>5. QED
    BY <1>2, <1>4, <1>t DEF Told, Talks

\* While a conversation is active, Bluetooth is off and has nothing to do.
LEMMA Calling ==
  ASSUME NEW at, NEW x, Kept(at, x), active
  PROVE  StackOff /\ ~bt.started /\ at["radio"] = "none" /\ at["main"] \in {"none"} \cup Talking
  <1>1. /\ Stack(at["main"]) /\ at["main"] \in MainPlaces /\ "radio" \in Tasks /\ Placed(at, x)
    BY DEF Kept, Ordered, Placed, Tasks
  <1>2. at["main"] \in {"none"} \cup Talking
    BY <1>1 DEF Stack, MainPlaces, Places
  <1>3. StackOff
    BY <1>1, <1>2 DEF Stack
  <1>4. at["radio"] = "none"
    BY <1>1, <1>3, TaskFree DEF StackOff, Unheard, Busy
  <1>5. QED
    BY <1>2, <1>3, <1>4 DEF StackOff, Noted

\* The places that say who has the output; others may be left and come to.
Handed == {"take", "open", "close", "refuse", "parted", "lend", "lent"}

LEMMA OwnedMoves ==
  ASSUME NEW at, Owned(at), at \in [Tasks -> Places], NEW t \in Tasks, NEW b, at[t] \notin Handed,
         b \notin Handed, UNCHANGED <<active, run, valid, crashed>>, bt'.started = bt.started
  PROVE  Owned([at EXCEPT ![t] = b])'
  <1> DEFINE to == [at EXCEPT ![t] = b]
  <1>1. \A u \in Tasks : to[u] = at[u] \/ (to[u] \notin Handed /\ at[u] \notin Handed)
    OBVIOUS
  <1>2. "main" \in Tasks /\ "radio" \in Tasks
    BY DEF Tasks
  <1> HIDE DEF to
  <1>3. /\ to["main"] \in {"take", "open"} <=> at["main"] \in {"take", "open"}
        /\ to["main"] = "parted" <=> at["main"] = "parted"
        /\ to["radio"] \in {"lend", "lent"} <=> at["radio"] \in {"lend", "lent"}
        /\ \A u \in Tasks : to[u] \in {"close", "refuse"} <=> at[u] \in {"close", "refuse"}
    BY <1>1, <1>2 DEF Handed
  <1>4. Held(to)' <=> Held(at)
    BY <1>3 DEF Held
  <1>5. Owned(to)'
    BY <1>4 DEF Owned, Owner
  <1>6. QED
    BY <1>5 DEF to

\* A step of start or stop of the conversation.
LEMMA ConversationKept ==
  ASSUME SoundAssumption, NEW at, NEW x, Kept(at, x), NEW t \in Tasks,
         ConversationStep(t) \/ SetRun(t)
  PROVE  Kept(at, x)' \/ Kept([at EXCEPT ![t] = After(at[t], x)], x)'
  <1> USE DEF driverVars, playVars, ttsVars, convVars
  <1>0. /\ TypeOK /\ {"recStop", "record"} \subseteq PlainOps
        /\ {"active", "socket", "run", "takeOutput"} \subseteq ControlOps
    BY DEF Kept, PlainOps, ControlOps
  <1>n. <<>> \in Seq(PlainStep)
    OBVIOUS
  <1>1. CASE StopRecorder(t)
    <2>1. /\ At(t, "recStop") /\ Continue(t, <<>>)
          /\ UNCHANGED <<active, socket, bt, up, run, valid, crashed>>
      BY <1>1 DEF StopRecorder, Done
    <2>2. TypeOK'
      BY <1>0, <1>1, <2>1 DEF StopRecorder, Continue, TypeOK
    <2>3. QED
      BY <1>0, <1>n, <2>1, <2>2, PlainKept
  <1>2. CASE StartRecorder(t)
    <2>1. /\ At(t, "record") /\ Continue(t, <<>>)
          /\ UNCHANGED <<active, socket, bt, up, run, valid, crashed>>
      BY <1>2 DEF StartRecorder, Done
    <2>2. recording' \subseteq Recorders
      BY <1>0, <1>2 DEF StartRecorder, TypeOK
    <2>3. TypeOK'
      BY <1>0, <1>2, <2>1, <2>2 DEF StartRecorder, Continue, TypeOK
    <2>4. QED
      BY <1>0, <1>n, <2>1, <2>3, PlainKept
  <1> DEFINE b == After(at[t], x)
             to == [at EXCEPT ![t] = b]
  <1>4. /\ at \in [Tasks -> Places] /\ Talk(at, x) /\ Stack(at["main"]) /\ bt \in Links
        /\ "main" \in Tasks /\ "radio" \in Tasks /\ Owned(at) /\ x \in Nexts
    BY DEF Kept, Ordered, Placed, Tasks
  <1>5. \A u \in Tasks : to[u] = IF u = t THEN b ELSE at[u]
    BY <1>4
  <1>r. "radio" \notin Recorders
    BY DEF SoundAssumption
  <1>t. \A u \in Tasks \ {t} :
           ~Overlapping /\ Talks(at[t], x) => at[u] \notin {"take", "open", "close", "refuse"}
    BY <1>4 DEF Talk, Told, Talks, Talking, Refusing
  <1>3. CASE TakeOutput(t)
    <2>1. At(t, "takeOutput") /\ Done(t) /\ UNCHANGED <<active, socket, bt, up, run, valid>>
          /\ crashed' = (crashed \/ run)
      BY <1>3 DEF TakeOutput
    <2>2. /\ at[t] \in PlacesOf(t) \ {"none"} /\ First1(at[t]).op = "takeOutput"
          /\ Placed(to, x)'
      BY <1>0, <2>1, DoneMoves
    <2>3. at[t] = "take" /\ b = "open" /\ t = "main"
      <3>1. at[t] \in Places \ {"none"}
        BY <1>4, <2>2
      <3>2. First1(at[t]).op = "takeOutput" <=> at[t] = "take"
        BY <3>1, StepsOfPlaces
      <3>3. QED
        BY <2>2, <3>2 DEF After, PlacesOf, Refusing, Lending
    <2>4. Talk(to, x)'
      <3>1. Talks("take", x) /\ Talks("open", x) /\ {"take", "open"} \subseteq Coming
        BY DEF Talks, Talking, Coming
      <3>2. PICK c : c = b
        OBVIOUS
      <3> HIDE DEF b
      <3>3. Talk([at EXCEPT ![t] = c], x)'
        BY <1>4, <2>1, <2>3, <3>1, <3>2, TalkKept
      <3>4. QED
        BY <3>2, <3>3
    <2>5. todo'["radio"] = todo["radio"] /\ to["main"] = "open"
      BY <1>0, <1>4, <1>5, <2>1, <2>3 DEF Done, Continue, TypeOK
    <2>6. Stack(to["main"])'
      <3>1. StackOff
        BY <1>4, <2>3 DEF Stack, Talking
      <3>2. StackOff'
        BY <2>1, <2>5, <3>1 DEF StackOff, Unheard, Noted
      <3>3. QED
        BY <2>5, <3>2 DEF Stack, Starting, Stopping
    <2>7. Owned(to)'
      <3>1. SUFFICES ASSUME ~Overlapping PROVE Owner(to)'
        BY DEF Owned
      <3>2. ~run /\ ~crashed
        BY <1>4, <2>3, <3>1 DEF Owned, Owner, Held
      <3>3. QED
        BY <2>1, <2>5, <3>2 DEF Owner, Held
    <2>8. crashed' \in BOOLEAN
      BY <1>0, <2>1 DEF TypeOK
    <2>9. TypeOK'
      BY <1>0, <1>3, <2>1, <2>8 DEF TakeOutput, Done, Continue, TypeOK
    <2>10. QED
      BY <1>4, <2>1, <2>2, <2>4, <2>6, <2>7, <2>9 DEF Kept, Ordered
  <1>6. ASSUME ~Overlapping, Talks(at[t], x) PROVE \A u \in Tasks \ {t} : ~Talks(to[u], x)
    BY <1>4, <1>5, <1>6 DEF Talk, Told
  <1>7. CASE SetActive(t)
    <2>1. /\ At(t, "active") /\ Done(t) /\ UNCHANGED <<socket, bt, up, run, valid, crashed>>
          /\ active' = Head(todo[t]).v
      BY <1>7 DEF SetActive
    <2>2. /\ at[t] \in PlacesOf(t) \ {"none"} /\ First1(at[t]).op = "active"
          /\ Head(todo[t]) = First1(at[t]) /\ Placed(to, x)'
      BY <1>0, <2>1, DoneMoves
    <2>3. at[t] \in {"open", "close", "refuse"}
      <3>1. at[t] \in Places \ {"none"}
        BY <1>4, <2>2
      <3>2. First1(at[t]).op = "active" <=> at[t] \in {"open", "close", "refuse"}
        BY <3>1, StepsOfPlaces
      <3>3. QED
        BY <2>2, <3>2
    <2>4. active' = (at[t] = "open")
      <3>1. at[t] = "open" => First1(at[t]).v = TRUE
        BY DEF First1, Sets
      <3>2. at[t] \in {"close", "refuse"} => First1(at[t]).v = FALSE
        BY DEF First1, Sets
      <3>3. QED
        BY <2>1, <2>2, <2>3, <3>1, <3>2
    <2>5. Talks(at[t], x) /\ Talks(b, x) /\ b \in {"opened", "closed", "refused"}
      BY <2>3 DEF Talks, After, Talking, Refusing
    <2>6. /\ b = "opened" <=> at[t] = "open"
          /\ ~Overlapping => /\ at[t] = "open" => ~socket
                             /\ at[t] \in {"close", "refuse"} => socket /\ active
      BY <1>4, <2>3, <2>5 DEF After, Talk, Told, Coming, Going
    <2>7. ASSUME ~Overlapping PROVE Told(to, x)'
      <3>1. b \notin Coming \cup Stopping /\ b \notin Going
        BY <2>5 DEF Stopping, Coming, Going
      <3>2. to[t] = b
        BY <1>5
      <3> HIDE DEF to, b
      <3>3. QED
        BY <1>6, <2>1, <2>3, <2>4, <2>5, <2>6, <2>7, <3>1, <3>2, TalkBy
    <2>8. Stack(to["main"])'
      <3>1. CASE t = "main"
        <4>1. at[t] \in Talking /\ b \in Talking /\ b \notin Starting \cup Stopping
              /\ b \notin {"none", "bring", "notOn"}
          BY <2>2, <2>3, <3>1
          DEF PlacesOf, MainPlaces, Refusing, Talking, After, Starting, Stopping
        <4>2. StackOff
          BY <1>4, <3>1, <4>1 DEF Stack
        <4>3. todo'["radio"] = todo["radio"]
          BY <1>0, <1>4, <2>1, <3>1 DEF Done, Continue, TypeOK
        <4>4. StackOff'
          BY <2>1, <4>2, <4>3 DEF StackOff, Unheard, Noted
        <4>5. to["main"] = b
          BY <1>5, <3>1
        <4>6. QED
          BY <4>1, <4>4, <4>5 DEF Stack, Starting, Stopping
      <3>2. CASE t # "main"
        <4>1. ~active'
          BY <2>2, <2>3, <2>4, <3>2 DEF PlacesOf, Refusing, Lending
        <4>2. t # "radio"
          BY <1>r, <2>2, <2>3, <3>2 DEF PlacesOf, Lending
        <4>3. todo'["radio"] = todo["radio"]
          BY <1>0, <1>4, <2>1, <4>2 DEF Done, Continue, TypeOK
        <4>4. to["main"] = at["main"]
          BY <1>4, <1>5, <3>2
        <4>5. QED
          BY <1>4, <2>1, <4>1, <4>3, <4>4 DEF Stack, StackOff, Unheard, Noted
      <3>3. QED
        BY <3>1, <3>2
    <2>9. TypeOK'
      <3>1. active' \in BOOLEAN
        BY <2>4
      <3>2. QED
        BY <1>0, <1>7, <2>1, <3>1 DEF SetActive, Done, Continue, TypeOK
    <2>10. Owned(to)'
      <3>0. SUFFICES ASSUME ~Overlapping PROVE Owner(to)'
        BY DEF Owned
      <3>1. Owner(at) /\ \A u \in Tasks \ {t} : at[u] \notin {"take", "open", "close", "refuse"}
        BY <1>4, <1>t, <2>5, <3>0 DEF Owned
      <3>2. to[t] = b /\ \A u \in Tasks \ {t} : to[u] = at[u]
        BY <1>5
      <3>3. CASE at[t] = "open"
        <4>1. t = "main"
          BY <2>2, <3>3 DEF PlacesOf, Refusing, Lending
        <4>2. Held(at)
          BY <3>3, <4>1 DEF Held
        <4>3. active' /\ \A u \in Tasks : to[u] \notin {"close", "refuse"}
          BY <2>4, <2>5, <3>1, <3>2, <3>3
        <4>4. Held(to)'
          BY <4>3 DEF Held
        <4>5. QED
          BY <2>1, <3>1, <4>2, <4>4 DEF Owner
      <3>4. CASE at[t] \in {"close", "refuse"}
        <4>1. active /\ ~active'
          BY <2>4, <2>6, <3>0, <3>4
        <4>2. ~bt.started /\ at["radio"] = "none"
          BY <4>1, Calling
        <4>3. at["main"] \notin {"take", "open"}
          BY <1>4, <3>1, <3>4
        <4>4. ~Held(at)
          BY <3>4, <4>2, <4>3 DEF Held
        <4>5. to["main"] \notin {"take", "open"} /\ to["radio"] \notin {"lend", "lent"}
          BY <1>4, <2>5, <3>2, <4>2, <4>3
        <4>6. ~Held(to)'
          BY <2>1, <4>1, <4>2, <4>5 DEF Held
        <4>7. QED
          BY <2>1, <3>1, <4>4, <4>6 DEF Owner
      <3>5. QED
        BY <2>3, <3>3, <3>4
    <2>11. QED
      BY <1>4, <2>1, <2>2, <2>7, <2>8, <2>9, <2>10 DEF Kept, Ordered, Talk
  <1>8. CASE SetSocket(t)
    <2>1. /\ At(t, "socket") /\ Done(t) /\ UNCHANGED <<active, bt, up, run, valid, crashed>>
          /\ socket' = Head(todo[t]).v
      BY <1>8 DEF SetSocket
    <2>2. /\ at[t] \in PlacesOf(t) \ {"none"} /\ First1(at[t]).op = "socket"
          /\ Head(todo[t]) = First1(at[t]) /\ Placed(to, x)'
      BY <1>0, <2>1, DoneMoves
    <2>3. at[t] \in {"opened", "closed", "refused"}
      <3>1. at[t] \in Places \ {"none"}
        BY <1>4, <2>2
      <3>2. First1(at[t]).op = "socket" <=> at[t] \in {"opened", "closed", "refused"}
        BY <3>1, StepsOfPlaces
      <3>3. QED
        BY <2>2, <3>2
    <2>4. socket' = (at[t] = "opened")
      <3>1. at[t] = "opened" => First1(at[t]).v = TRUE
        BY DEF First1, Sets
      <3>2. at[t] \in {"closed", "refused"} => First1(at[t]).v = FALSE
        BY DEF First1, Sets
      <3>3. QED
        BY <2>1, <2>2, <2>3, <3>1, <3>2
    <2>5. Talks(at[t], x) /\ ~Talks(b, x) /\ b = "none"
      BY <2>3 DEF Talks, After, Talking, Refusing, Stopping
    <2>6. ~Overlapping => active = (at[t] = "opened")
      BY <1>0, <1>4, <2>3 DEF Talk, Told, TypeOK
    <2>7. ASSUME ~Overlapping PROVE Told(to, x)'
      <3>1. to[t] = "none" /\ "none" \notin Coming \cup Stopping \cup Going
        BY <1>5, <2>5 DEF Stopping, Coming, Going
      <3> HIDE DEF to, b
      <3>2. QED
        BY <1>6, <2>1, <2>4, <2>5, <2>6, <2>7, <3>1, TalkBy
    <2>8. Stack(to["main"])'
      <3>1. CASE t = "main"
        <4>1. at[t] \in Talking /\ to["main"] = "none"
          BY <1>5, <2>2, <2>3, <2>5, <3>1 DEF PlacesOf, MainPlaces, Refusing, Talking
        <4>2. StackOff
          BY <1>4, <3>1, <4>1 DEF Stack
        <4>3. todo'["radio"] = todo["radio"]
          BY <1>0, <1>4, <2>1, <3>1 DEF Done, Continue, TypeOK
        <4>4. StackOff' /\ ~bt'.on
          BY <2>1, <4>2, <4>3 DEF StackOff, Unheard, Noted
        <4>5. QED
          BY <4>1, <4>4 DEF Stack, Talking, Starting, Stopping
      <3>2. CASE t # "main"
        <4>1. t # "radio"
          BY <1>r, <2>2, <2>3, <3>2 DEF PlacesOf, Lending
        <4>2. todo'["radio"] = todo["radio"]
          BY <1>0, <1>4, <2>1, <4>1 DEF Done, Continue, TypeOK
        <4>3. to["main"] = at["main"]
          BY <1>4, <1>5, <3>2
        <4>4. QED
          BY <1>4, <2>1, <4>2, <4>3, StackStays
      <3>3. QED
        BY <3>1, <3>2
    <2>9. TypeOK'
      <3>1. socket' \in BOOLEAN
        BY <2>4
      <3>2. QED
        BY <1>0, <1>8, <2>1, <3>1 DEF SetSocket, Done, Continue, TypeOK
    <2>10. Owned(to)'
      <3>1. PICK c : c = b /\ c \notin Handed /\ at[t] \notin Handed
        BY <2>3, <2>5 DEF Handed
      <3>2. bt'.started = bt.started
        BY <2>1
      <3> HIDE DEF b
      <3>3. Owned([at EXCEPT ![t] = c])'
        BY <1>4, <2>1, <3>1, <3>2, OwnedMoves
      <3>4. QED
        BY <3>1, <3>3
    <2>11. QED
      BY <1>4, <2>1, <2>2, <2>7, <2>8, <2>9, <2>10 DEF Kept, Ordered, Talk
  <1>9. CASE SetRun(t)
    <2>1. /\ At(t, "run") /\ Done(t) /\ UNCHANGED <<active, socket, bt, up, valid, crashed>>
          /\ run' = Head(todo[t]).v
      BY <1>9 DEF SetRun
    <2>2. /\ at[t] \in PlacesOf(t) \ {"none"} /\ First1(at[t]).op = "run"
          /\ Head(todo[t]) = First1(at[t]) /\ Placed(to, x)'
      BY <1>0, <2>1, DoneMoves
    <2>3. at[t] \in {"pause", "resume", "regain", "return", "hush"}
      <3>1. at[t] \in Places \ {"none"}
        BY <1>4, <2>2
      <3>2. First1(at[t]).op = "run" <=> at[t] \in {"pause", "resume", "regain", "return", "hush"}
        BY <3>1, StepsOfPlaces
      <3>3. QED
        BY <2>2, <3>2
    <2>4. run' = (at[t] \notin {"pause", "hush"})
      <3>1. at[t] \in {"pause", "hush"} => First1(at[t]).v = FALSE
        BY DEF First1, Sets
      <3>2. at[t] \in {"resume", "regain", "return"} => First1(at[t]).v = TRUE
        BY DEF First1, Sets
      <3>3. QED
        BY <2>1, <2>2, <2>3, <3>1, <3>2
    <2>5. /\ at[t] \in {"pause", "resume", "return"} => t = "main"
          /\ at[t] = "regain" => t \notin {"main", "radio"}
          /\ at[t] = "hush" => t = "radio"
      BY <1>r, <2>2 DEF PlacesOf, MainPlaces, Refusing, Lending, SoundAssumption
    <2>6. /\ at[t] = "pause" => b = "take"
          /\ at[t] = "resume" => b = "close"
          /\ at[t] = "regain" => b = "refuse"
          /\ at[t] = "return" => b = "parted"
          /\ at[t] = "hush" => b = "lend"
      BY DEF After
    <2>7. /\ Talks(b, x) <=> Talks(at[t], x)
          /\ Talks(b, x) => \/ at[t] \in Coming \cup Stopping /\ b \in Coming \cup Stopping
                            \/ at[t] \in Going /\ b \in Going
      BY <2>3, <2>6 DEF Talks, Talking, Refusing, Stopping, Coming, Going
    <2>8. Talk(to, x)'
      <3>1. PICK c : c = b
        OBVIOUS
      <3> HIDE DEF b
      <3>2. Talk([at EXCEPT ![t] = c], x)'
        BY <1>4, <2>1, <2>7, <3>1, TalkKept
      <3>3. QED
        BY <3>1, <3>2
    <2>9. t # "radio" => todo'["radio"] = todo["radio"]
      BY <1>0, <1>4, <2>1 DEF Done, Continue, TypeOK
    <2>10. Stack(to["main"])'
      <3>1. CASE at[t] \in {"pause", "resume"}
        <4>1. StackOff /\ t = "main" /\ b \in {"take", "close"}
          BY <1>4, <2>5, <2>6, <3>1 DEF Stack, Talking
        <4>2. StackOff' /\ to["main"] = b
          BY <1>5, <2>1, <2>9, <4>1 DEF StackOff, Unheard, Noted
        <4>3. QED
          BY <4>1, <4>2 DEF Stack, Starting, Stopping
      <3>2. CASE at[t] = "return"
        <4>1. t = "main" /\ to["main"] = "parted" /\ up = {} /\ Unheard /\ ~active
          BY <1>4, <1>5, <2>5, <2>6, <3>2 DEF Stack, Stopping
        <4>2. up' = {} /\ Unheard' /\ ~active'
          BY <2>1, <2>9, <4>1 DEF Unheard
        <4>3. QED
          BY <4>1, <4>2 DEF Stack, Talking, Starting, Stopping
      <3>3. CASE at[t] \in {"regain", "hush"}
        <4>1. t # "main" /\ to["main"] = at["main"]
          BY <1>4, <1>5, <2>5, <3>3
        <4>2. todo'["radio"] = todo["radio"] \/ ~Unheard
          BY <2>1, <2>9 DEF At, Busy, Unheard
        <4>3. QED
          BY <1>4, <2>1, <4>1, <4>2, StackStays
      <3>4. QED
        BY <2>3, <3>1, <3>2, <3>3
    <2>11. Owned(to)'
      <3>0. SUFFICES ASSUME ~Overlapping PROVE Owner(to)'
        BY DEF Owned
      <3>1. Owner(at) /\ to[t] = b /\ \A u \in Tasks \ {t} : to[u] = at[u]
        BY <1>4, <1>5, <3>0 DEF Owned
      <3>2. CASE at[t] \in {"pause", "hush"}
        <4>1. Held(to)'
          BY <2>5, <2>6, <3>1, <3>2 DEF Held
        <4>2. QED
          BY <2>1, <2>4, <3>1, <3>2, <4>1 DEF Owner
      <3>3. CASE at[t] \in {"resume", "regain"}
        <4>1. Talks(at[t], x) /\ at[t] \in Going /\ b \in {"close", "refuse"}
          BY <2>6, <3>3 DEF Talks, Talking, Refusing, Going
        <4>2. active
          BY <1>4, <3>0, <4>1 DEF Talk, Told
        <4>3. ~bt.started /\ at["radio"] = "none" /\ t # "radio"
          BY <2>5, <3>3, <4>2, Calling
        <4>4. to["main"] \notin {"take", "open"}
          BY <1>4, <1>t, <3>0, <3>1, <4>1
        <4>5. ~Held(to)'
          BY <1>4, <2>1, <3>1, <4>1, <4>3, <4>4 DEF Held
        <4>6. QED
          BY <2>1, <2>4, <3>1, <3>3, <4>5 DEF Owner
      <3>4. CASE at[t] = "return"
        <4>1. t = "main" /\ to["main"] = "parted" /\ Unheard /\ ~active
          BY <1>4, <2>5, <2>6, <3>1, <3>4 DEF Stack, Stopping
        <4>2. at["radio"] = "none"
          BY <1>4, <4>1, TaskFree DEF Unheard, Busy, Kept, Ordered
        <4>3. ~Held(to)'
          BY <1>4, <2>1, <3>1, <4>1, <4>2 DEF Held
        <4>4. QED
          BY <2>1, <2>4, <3>1, <3>4, <4>3 DEF Owner
      <3>5. QED
        BY <2>3, <3>2, <3>3, <3>4
    <2>12. run' \in BOOLEAN
      BY <2>4
    <2>13. TypeOK'
      BY <1>0, <1>9, <2>1, <2>12 DEF SetRun, Done, Continue, TypeOK
    <2>14. QED
      BY <1>4, <2>1, <2>2, <2>8, <2>10, <2>11, <2>13 DEF Kept, Ordered
  <1>10. QED
    BY <1>1, <1>2, <1>3, <1>7, <1>8, <1>9 DEF ConversationStep

-----------------------------------------------------------------------------
(* The sequences that start and stop a conversation, and Bluetooth.          *)

LEMMA StopSteps ==
  ASSUME NEW x
  PROVE  LET d == << Simple("recStop") >> \o Reconfigure(Speech, "I2S_DAC")
         IN  /\ d \in Seq(PlainStep)
             /\ StopConversation = d \o ToGo("resume", x)
             /\ StopConversation \o Ended = d \o ToGo("regain", x)
  <1> DEFINE stop == << Simple("recStop") >>
             conf == Reconfigure(Speech, "I2S_DAC")
             d == stop \o conf
             r == << Sets("run", TRUE) >>
             p == << Simple("recStop") >> \o Reset
             a == << Sets("active", FALSE) >>
             s == << Sets("socket", FALSE) >>
             two == << Sets("active", FALSE), Sets("socket", FALSE) >>
  <1>1. d \in Seq(PlainStep) /\ stop \in Seq(Steps) /\ conf \in Seq(Steps) /\ r \in Seq(Steps)
    <2>1. stop \in Seq(PlainStep)
      BY PlainSteps
    <2>2. conf \in Seq(PlainStep)
      BY PlainSequences DEF Configs, Modes
    <2>3. r \in Seq(Steps)
      BY ControlSequences
    <2> HIDE DEF stop, conf, r
    <2>4. QED
      BY <2>1, <2>2, <2>3, PlainIsStep, ConcatProperties
  <1>p. p = d \o r
    <2>1. Reset = conf \o r
      BY DEF Reset, Sets
    <2>2. p = stop \o (conf \o r)
      BY <2>1
    <2> HIDE DEF stop, conf, r
    <2>3. QED
      BY <1>1, <2>2, Joined
  <1>2. a \in Seq(Steps) /\ s \in Seq(Steps) /\ p \in Seq(Steps)
    <2>1. a \in Seq(Steps) /\ s \in Seq(Steps)
      BY ControlSequences
    <2> HIDE DEF d, r
    <2>2. d \o r \in Seq(Steps)
      BY <1>1, PlainIsStep, Joined
    <2>3. QED
      BY <1>p, <2>1, <2>2
  <1>3. Speak \in Seq(Steps) /\ Ended \in Seq(Steps) /\ <<>> \in Seq(Steps)
    BY PlainSequences, PlainIsStep
  <1>4. two = a \o s
    BY TwoSteps
  <1>5. StopConversation = (p \o two) \o Speak
    BY DEF StopConversation, Sets
  <1>6. two \in Seq(Steps)
    BY <1>2, <1>4, Joined
  <1> HIDE DEF p, d, r, a, s, two
  <1>7. ASSUME NEW e \in Seq(Steps)
        PROVE  StopConversation \o e = d \o (r \o (a \o (s \o (Speak \o e))))
    <2> DEFINE w == Speak \o e
    <2>1. StopConversation \o e = p \o (two \o w)
      <3>1. SameOf4(p, two, Speak, e)
        BY <1>2, <1>3, <1>6, Joined4
      <3>2. QED
        BY <1>5, <3>1, Zenon DEF SameOf4
    <2>2. w \in Seq(Steps)
      BY <1>3, Joined
    <2>3. two \o w = a \o (s \o w)
      <3> HIDE DEF w
      <3>1. QED
        BY <1>2, <1>4, <2>2, Joined
    <2> DEFINE v == a \o (s \o w)
    <2>4. v \in Seq(Steps)
      <3> HIDE DEF w
      <3>1. QED
        BY <1>2, <2>2, Joined
    <2>5. p \o v = d \o (r \o v)
      <3> HIDE DEF v
      <3>1. QED
        BY <1>1, <1>p, <2>4, PlainIsStep, Joined
    <2>6. QED
      BY <2>1, <2>3, <2>5, Zenon
  <1>8. StopConversation \o <<>> = StopConversation
    <2>1. p \o two \in Seq(Steps)
      BY <1>2, <1>6, Joined
    <2>2. StopConversation \in Seq(Steps)
      BY <1>3, <1>5, <2>1, Joined
    <2>3. QED
      BY <2>2, ConcatEmptySeq
  <1>9. /\ StopConversation = d \o (r \o (a \o (s \o (Speak \o <<>>))))
        /\ StopConversation \o Ended = d \o (r \o (a \o (s \o (Speak \o Ended))))
    BY <1>3, <1>7, <1>8
  <1>10. /\ ToGo("resume", x) = r \o (a \o (s \o (Speak \o <<>>)))
         /\ ToGo("regain", x) = r \o (a \o (s \o (Speak \o Ended)))
    BY DEF ToGo, Close, Closed, r, a, s
  <1>11. QED
    BY <1>1, <1>9, <1>10, Zenon DEF d

LEMMA StopLeads ==
  ASSUME NEW x
  PROVE  /\ Leads(StopConversation, ToGo("resume", x))
         /\ Leads(StopConversation \o Ended, ToGo("regain", x))
  BY StopSteps DEF Leads

LEMMA BluetoothLeads ==
  ASSUME NEW x \in Nexts
  PROVE  /\ StopBluetooth \o x = ToGo("downFirst", x)
         /\ TakeDown \o << Simple("notOn") >> \o Say = ToGo("failFirst", x)
         /\ << Simple("on") >> \o Say = ToGo("on", x)
  <1> DEFINE p == << Down(Profiles) >>
             r == << Down(AllStages \ Profiles) >>
             h == << Simple("handBack") >>
             o == << Simple("off") >>
             n == << Simple("notOn") >>
  <1>1. /\ p \in Seq(Steps) /\ r \in Seq(Steps) /\ h \in Seq(Steps) /\ o \in Seq(Steps)
        /\ n \in Seq(Steps)
    BY ControlSequences
  <1>2. Say \in Seq(Steps) /\ x \in Seq(Steps)
    BY PlainSequences, PlainIsStep, NextSteps
  <1>3. TakeDown = p \o r
    BY TwoSteps DEF TakeDown
  <1>4. StopBluetooth = ((TakeDown \o h) \o Say) \o o
    BY DEF StopBluetooth
  <1>5. /\ ToGo("downFirst", x) = p \o (r \o (h \o (Say \o (o \o x))))
        /\ ToGo("failFirst", x) = p \o (r \o (n \o Say))
        /\ TakeDown \o << Simple("notOn") >> \o Say = (TakeDown \o n) \o Say
    BY DEF ToGo, DownFirst, DownLast, Parting, Off, FailLast, NotOn
  <1>6. << Simple("on") >> \o Say = ToGo("on", x)
    BY DEF ToGo
  <1> HIDE DEF p, r, h, o, n
  <1>7. ((((p \o r) \o h) \o Say) \o o) \o x = p \o (r \o (h \o (Say \o (o \o x))))
    <2>1. SameOf6(p, r, h, Say, o, x)
      BY <1>1, <1>2, Joined6
    <2>2. QED
      BY <2>1, Zenon DEF SameOf6
  <1>8. ((p \o r) \o n) \o Say = p \o (r \o (n \o Say))
    <2>1. SameOf4(p, r, n, Say)
      BY <1>1, <1>2, Joined4
    <2>2. QED
      BY <2>1, Zenon DEF SameOf4
  <1>9. StopBluetooth \o x = ToGo("downFirst", x)
    BY <1>3, <1>4, <1>5, <1>7, Zenon
  <1>10. TakeDown \o << Simple("notOn") >> \o Say = ToGo("failFirst", x)
    BY <1>3, <1>5, <1>8, Zenon
  <1>11. QED
    BY <1>6, <1>9, <1>10

-----------------------------------------------------------------------------
(* Handlers that begin.                                                      *)

\* A handler of plain steps begins, on a task that has nothing to do.
LEMMA PlainBegins ==
  ASSUME SoundAssumption, NEW at, NEW x, Kept(at, x), NEW t \in Tasks, ~Busy(t),
         NEW e \in Seq(PlainStep), todo' = [todo EXCEPT ![t] = e],
         UNCHANGED <<active, socket, run, valid, crashed>>, bt'.started = bt.started
  PROVE  Placed(at, x)' /\ Talk(at, x)' /\ Owned(at)'
  <1>1. /\ DOMAIN todo = Tasks /\ Placed(at, x) /\ at \in [Tasks -> Places] /\ x \in Nexts
        /\ at[t] = "none" /\ at[t] \in PlacesOf(t)
    BY TaskFree DEF Kept, TypeOK, Ordered, Placed, PlacesOf, Tasks
  <1>2. Leads(e, ToGo("none", x))
    <2>1. ToGo("none", x) = <<>>
      BY DEF ToGo
    <2>2. QED
      BY <2>1, LeadsItself
  <1>3. Placed([at EXCEPT ![t] = at[t]], x)'
    BY <1>1, <1>2, PlacedNext
  <1>4. [at EXCEPT ![t] = at[t]] = at
    BY <1>1
  <1>5. Talk(at, x)'
    BY DEF Kept, Ordered, Talk, Told, Talks
  <1>6. Owned(at)'
    BY DEF Kept, Ordered, Owned, Owner, Held
  <1>7. QED
    BY <1>3, <1>4, <1>5, <1>6

\* The main task begins what goes on at b.
LEMMA MainBegins ==
  ASSUME SoundAssumption, NEW at, NEW x, Kept(at, x), ~Busy("main"),
         NEW b \in MainPlaces \ Handed, NEW y \in Nexts, NEW s, Leads(s, ToGo(b, y)),
         todo' = [todo EXCEPT !["main"] = s], UNCHANGED <<active, bt, run, valid, crashed>>
  PROVE  /\ at["main"] = "none" /\ at \in [Tasks -> Places] /\ Placed([at EXCEPT !["main"] = b], y)'
         /\ \A u \in Tasks \ {"main"} : Talks(at[u], y) <=> Talks(at[u], x)
         /\ todo'["radio"] = todo["radio"] /\ Owned([at EXCEPT !["main"] = b])'
  <1>1. /\ DOMAIN todo = Tasks /\ Placed(at, x) /\ at \in [Tasks -> Places] /\ "main" \in Tasks
        /\ b \in PlacesOf("main")
    BY DEF Kept, TypeOK, Ordered, Placed, PlacesOf, Tasks
  <1>2. at["main"] = "none"
    BY <1>1, TaskFree
  <1>3. Placed([at EXCEPT !["main"] = b], y)'
    BY <1>1, PlacedNext
  <1>4. \A u \in Tasks \ {"main"} : at[u] \notin Stopping
    <2>1. \A u \in Tasks \ {"main"} : at[u] \in {"none"} \cup Refusing \cup Lending
      BY <1>1 DEF Placed, Tasks
    <2>2. QED
      BY <2>1 DEF Stopping, Refusing, Lending
  <1>5. Owned([at EXCEPT !["main"] = b])'
    <2>1. Owned(at) /\ at["main"] \notin Handed
      BY <1>2 DEF Kept, Ordered, Handed
    <2>2. QED
      BY <1>1, <2>1, OwnedMoves
  <1>6. QED
    BY <1>1, <1>2, <1>3, <1>4, <1>5 DEF Talks

\* A conversation begins or ends when no other task is in it.
LEMMA Alone ==
  ASSUME NEW at, NEW x, Kept(at, x), ~Overlapping, NEW t \in Tasks, MayBegin(t)
  PROVE  \A u \in Tasks \ {t} : ~Talks(at[u], x)
  <1>1. ~Overlaps(t)
    BY DEF MayBegin
  <1>2. \A u \in Tasks \ {t} : ~InConversation(u)
    BY <1>1 DEF Overlaps
  <1>3. \A u \in Tasks : at[u] \in Places /\ x \in Nexts /\ Leads(todo[u], ToGo(at[u], x))
    BY DEF Kept, Ordered, Placed
  <1>4. QED
    BY <1>2, <1>3, TalkersAreIn

LEMMA AnnounceKept ==
  ASSUME SoundAssumption, NEW at, NEW x, Kept(at, x), Announce
  PROVE  Kept(at, x)'
  <1> USE DEF driverVars, playVars, ttsVars, convVars
  <1>1. /\ ~Busy("main") /\ todo' = [todo EXCEPT !["main"] = Speak] /\ "main" \in Tasks
        /\ UNCHANGED <<active, socket, bt, up, run, valid, crashed>> /\ TypeOK /\ "radio" \in Tasks
    BY DEF Announce, Free, Tasks, Kept
  <1>2. Speak \in Seq(PlainStep)
    BY PlainSequences
  <1>3. Placed(at, x)' /\ Talk(at, x)' /\ Owned(at)'
    BY <1>1, <1>2, PlainBegins
  <1>4. todo'["radio"] = todo["radio"]
    BY <1>1 DEF TypeOK
  <1>5. Stack(at["main"])'
    BY <1>1, <1>4, StackStays DEF Kept, Ordered
  <1>6. TypeOK'
    BY <1>1 DEF Announce, TypeOK
  <1>7. QED
    BY <1>1, <1>3, <1>5, <1>6 DEF Kept, Ordered

LEMMA EndKept ==
  ASSUME SoundAssumption, NEW at, NEW x, Kept(at, x), EndConversation
  PROVE  Kept([at EXCEPT !["main"] = "resume"], x)'
  <1> USE DEF driverVars, playVars, ttsVars, convVars
  <1> DEFINE to == [at EXCEPT !["main"] = "resume"]
  <1>1. /\ ~Busy("main") /\ active /\ MayBegin("main") /\ TypeOK /\ x \in Nexts /\ "main" \in Tasks
        /\ todo' = [todo EXCEPT !["main"] = StopConversation]
        /\ UNCHANGED <<active, socket, bt, up, run, valid, crashed>> /\ Talk(at, x)
        /\ Stack(at["main"]) /\ bt \in Links
    BY DEF EndConversation, Free, Tasks, Kept, Ordered, Placed
  <1>2. Leads(StopConversation, ToGo("resume", x)) /\ "resume" \in MainPlaces \ Handed
    BY StopLeads DEF MainPlaces, Places, Talking, Refusing, Lending, Handed
  <1>3. /\ at["main"] = "none" /\ at \in [Tasks -> Places] /\ Placed(to, x)'
        /\ todo'["radio"] = todo["radio"] /\ Owned(to)'
    BY <1>1, <1>2, MainBegins
  <1>4. ~Overlapping => \A u \in Tasks \ {"main"} : ~Talks(at[u], x)
    BY <1>1, Alone
  <1>5. ~Talks("none", x)
    BY DEF Talks, Talking, Refusing, Stopping
  <1>6. ~Overlapping => socket = active
    BY <1>1, <1>3, <1>4, <1>5 DEF Talk, Told
  <1>7. /\ to["main"] = "resume"
        /\ ~Overlapping => \A u \in Tasks \ {"main"} : ~Talks(to[u], x)
    BY <1>1, <1>3, <1>4
  <1>8. ASSUME ~Overlapping PROVE Told(to, x)'
    <2>1. Talks("resume", x) /\ "resume" \notin Coming \cup Stopping
      BY DEF Talks, Talking, Stopping, Coming
    <2> HIDE DEF to
    <2>2. QED
      BY <1>1, <1>6, <1>7, <1>8, <2>1, TalkBy
  <1>9. Stack(to["main"])'
    <2>1. StackOff
      BY <1>1, <1>3 DEF Stack
    <2>2. StackOff'
      BY <1>1, <1>3, <2>1 DEF StackOff, Unheard, Noted
    <2>3. QED
      BY <1>7, <2>2 DEF Stack, Talking, Starting, Stopping
  <1>10. TypeOK'
    BY <1>1 DEF EndConversation, TypeOK
  <1>11. QED
    BY <1>1, <1>3, <1>8, <1>9, <1>10 DEF Kept, Ordered, Talk

\* A conversation begins at once, or after Bluetooth is off.
LEMMA StartKept ==
  ASSUME SoundAssumption, NEW at, NEW x, Kept(at, x), StartConversation
  PROVE  \E to, y : Kept(to, y)'
  <1> USE DEF driverVars, playVars, ttsVars, convVars
  <1>1. /\ ~Busy("main") /\ ~active /\ MayBegin("main") /\ TypeOK /\ x \in Nexts /\ "main" \in Tasks
        /\ Talk(at, x) /\ Stack(at["main"]) /\ bt \in Links
        /\ UNCHANGED <<active, socket, bt, up, run, valid, crashed>>
    BY DEF StartConversation, Free, Tasks, Kept, Ordered, Placed
  <1>2. PICK y \in Nexts : todo' = [todo EXCEPT !["main"] = Before \o y]
    BY DEF StartConversation, Nexts
  <1>3. y \in Seq(Steps) /\ y = <<>> \o y
    BY NextSteps, ConcatEmptySeq
  <1>4. PICK b \in MainPlaces \ Handed :
          /\ Leads(Before \o y, ToGo(b, y))
          /\ b = IF bt.on THEN "downFirst" ELSE IF y = <<>> THEN "none" ELSE "pause"
    <2>1. {"downFirst", "none", "pause"} \subseteq MainPlaces \ Handed
      BY DEF MainPlaces, Places, Talking, Refusing, Stopping, Lending, Handed
    <2>2. CASE bt.on
      <3>1. Before \o y = ToGo("downFirst", y)
        BY <2>2, BluetoothLeads DEF Before
      <3>2. ToGo("downFirst", y) \in Seq(Steps)
        BY <2>1, ToGoType DEF MainPlaces
      <3>3. Leads(Before \o y, ToGo("downFirst", y))
        BY <3>1, <3>2, LeadsItself
      <3>4. QED
        BY <2>1, <2>2, <3>3
    <2>3. CASE ~bt.on /\ y = <<>>
      <3>1. Before \o y = <<>> /\ ToGo("none", y) = <<>>
        BY <1>3, <2>3 DEF Before, ToGo
      <3>2. Leads(Before \o y, ToGo("none", y))
        BY <3>1, LeadsItself, PlainSequences
      <3>3. QED
        BY <2>1, <2>3, <3>2
    <2>4. CASE ~bt.on /\ y # <<>>
      <3>1. Before \o y = y /\ y = ToGo("pause", y)
        BY <1>3, <2>4, NextSteps DEF Before
      <3>2. Leads(y, y)
        BY <1>3, LeadsItself
      <3>3. Leads(Before \o y, ToGo("pause", y))
        BY <3>1, <3>2
      <3>4. QED
        BY <2>1, <2>4, <3>3
    <2>5. QED
      BY <2>2, <2>3, <2>4
  <1> DEFINE to == [at EXCEPT !["main"] = b]
  <1>5. PICK s : s = Before \o y
    OBVIOUS
  <1>6. /\ at["main"] = "none" /\ at \in [Tasks -> Places] /\ Placed(to, y)'
        /\ todo'["radio"] = todo["radio"] /\ Owned(to)'
        /\ \A u \in Tasks \ {"main"} : Talks(at[u], y) <=> Talks(at[u], x)
    <2>1. Leads(s, ToGo(b, y)) /\ todo' = [todo EXCEPT !["main"] = s]
      BY <1>2, <1>4, <1>5
    <2>2. QED
      BY <1>1, <2>1, MainBegins
  <1>7. ~Overlapping => \A u \in Tasks \ {"main"} : ~Talks(at[u], x)
    BY <1>1, Alone
  <1>8. ~Talks("none", x) /\ ~Talks("none", y)
    BY DEF Talks, Talking, Refusing, Stopping
  <1>9. ~Overlapping => socket = active
    BY <1>1, <1>6, <1>7, <1>8 DEF Talk, Told
  <1>10. to["main"] = b /\ (~Overlapping => \A u \in Tasks \ {"main"} : ~Talks(to[u], y))
    BY <1>1, <1>6, <1>7
  <1>11. ASSUME ~Overlapping PROVE Told(to, y)'
    <2>1. ~active' /\ ~socket' /\ socket' = active'
      BY <1>1, <1>9, <1>11
    <2>2. b \in {"downFirst", "none", "pause"} /\ b \notin Going
      BY <1>4 DEF Going
    <2> HIDE DEF to
    <2>3. QED
      BY <1>1, <1>10, <1>11, <2>1, <2>2, TalkBy
  <1>12. Stack(to["main"])'
    <2>1. CASE bt.on
      <3>1. up = AllStages
        BY <1>1, <1>6, <2>1 DEF Stack
      <3>2. b = "downFirst"
        BY <1>4, <2>1
      <3>3. QED
        BY <1>1, <1>10, <3>1, <3>2 DEF Stack, Talking, Starting, Stopping
    <2>2. CASE ~bt.on
      <3>1. StackOff
        BY <1>1, <1>6, <2>2 DEF Stack
      <3>2. StackOff' /\ ~bt'.on
        BY <1>1, <1>6, <3>1 DEF StackOff, Unheard, Noted
      <3>3. b \in {"none", "pause"}
        BY <1>4, <2>2
      <3>4. QED
        BY <1>10, <3>2, <3>3 DEF Stack, Talking, Starting, Stopping
    <2>3. QED
      BY <2>1, <2>2
  <1>13. TypeOK'
    BY <1>1, <1>2 DEF StartConversation, TypeOK
  <1>14. Kept(to, y)'
    BY <1>1, <1>6, <1>11, <1>12, <1>13 DEF Kept, Ordered, Talk
  <1>15. QED
    BY <1>14

LEMMA StopBluetoothType == StopBluetooth \in Seq(Steps)
  <1> DEFINE d == << Down(Profiles), Down(AllStages \ Profiles) >>
             h == << Simple("handBack") >>
             o == << Simple("off") >>
  <1>1. d \in Seq(Steps)
    BY ControlSequences, TwoSteps, Joined
  <1>2. h \in Seq(Steps) /\ o \in Seq(Steps) /\ Say \in Seq(Steps)
    BY ControlSequences, PlainSequences, PlainIsStep
  <1>3. StopBluetooth = ((d \o h) \o Say) \o o
    BY DEF StopBluetooth, TakeDown
  <1> HIDE DEF d, h, o
  <1>4. d \o h \in Seq(Steps)
    BY <1>1, <1>2, Joined
  <1>5. (d \o h) \o Say \in Seq(Steps)
    BY <1>2, <1>4, Joined
  <1>6. QED
    BY <1>2, <1>3, <1>5, Joined

\* Bluetooth begins to start, or to stop.
LEMMA SwitchKept ==
  ASSUME SoundAssumption, NEW at, NEW x, Kept(at, x), StartBluetooth \/ StopMusic
  PROVE  \E to, y : Kept(to, y)'
  <1> USE DEF driverVars, playVars, ttsVars, convVars
  <1>1. /\ ~Busy("main") /\ TypeOK /\ x \in Nexts /\ "main" \in Tasks /\ bt \in Links
        /\ Talk(at, x) /\ Stack(at["main"])
        /\ UNCHANGED <<active, socket, bt, up, run, valid, crashed>>
    BY DEF StartBluetooth, StopMusic, Free, Tasks, Kept, Ordered, Placed
  <1>2. PICK b, s :
          /\ b \in MainPlaces \ Handed
          /\ todo' = [todo EXCEPT !["main"] = s] /\ Leads(s, ToGo(b, <<>>))
          /\ (b = "bring" /\ ~bt.on /\ ~active) \/ (b = "downFirst" /\ bt.on)
    <2>1. /\ {"bring", "downFirst"} \subseteq MainPlaces \ Handed /\ <<>> \in Nexts
          /\ MainPlaces \subseteq Places
      BY DEF MainPlaces, Places, Starting, Stopping, Refusing, Lending, Nexts, Handed
    <2>2. CASE StartBluetooth
      <3>1. ToGo("bring", <<>>) = << Simple("bring") >>
        <4>1. << Simple("bring") >> \in Seq(Steps)
          BY ControlSequences
        <4>2. << Simple("bring") >> \o <<>> = << Simple("bring") >>
          BY <4>1, ConcatEmptySeq
        <4>3. QED
          BY <4>2 DEF ToGo
      <3>2. Leads(<< Simple("bring") >>, ToGo("bring", <<>>))
        <4>1. ToGo("bring", <<>>) \in Seq(Steps)
          BY <2>1, ToGoType
        <4>2. Leads(ToGo("bring", <<>>), ToGo("bring", <<>>))
          BY <4>1, LeadsItself
        <4>3. QED
          BY <3>1, <4>2
      <3>3. todo' = [todo EXCEPT !["main"] = << Simple("bring") >>] /\ ~bt.on /\ ~active
        BY <2>2 DEF StartBluetooth
      <3> DEFINE r == << Simple("bring") >>
      <3>4. todo' = [todo EXCEPT !["main"] = r] /\ Leads(r, ToGo("bring", <<>>))
        BY <3>2, <3>3
      <3> HIDE DEF r
      <3>5. QED
        BY <2>1, <3>3, <3>4
    <2>3. CASE StopMusic
      <3>1. StopBluetooth \o <<>> = ToGo("downFirst", <<>>)
        BY <2>1, BluetoothLeads
      <3>2. StopBluetooth \in Seq(Steps)
        BY StopBluetoothType
      <3>3. StopBluetooth \o <<>> = StopBluetooth
        BY <3>2, ConcatEmptySeq
      <3>4. Leads(StopBluetooth, ToGo("downFirst", <<>>))
        BY <2>1, <3>1, <3>2, <3>3, LeadsItself
      <3>5. QED
        BY <2>1, <2>3, <3>4 DEF StopMusic
    <2>4. QED
      BY <2>2, <2>3
  <1> DEFINE to == [at EXCEPT !["main"] = b]
  <1>3. /\ at["main"] = "none" /\ at \in [Tasks -> Places] /\ Placed(to, <<>>)'
        /\ todo'["radio"] = todo["radio"] /\ Owned(to)'
        /\ \A u \in Tasks \ {"main"} : Talks(at[u], <<>>) <=> Talks(at[u], x)
    BY <1>1, <1>2, MainBegins DEF Nexts
  <1>4. ~Talks(b, <<>>) /\ ~Talks("none", <<>>) /\ ~Talks("none", x)
    BY <1>2 DEF Talks, Talking, Refusing, Stopping
  <1>5. to["main"] = b /\ \A u \in Tasks \ {"main"} : to[u] = at[u]
    BY <1>1, <1>3
  <1>6. \A u \in Tasks : Talks(to[u], <<>>) <=> Talks(at[u], x)
    BY <1>3, <1>4, <1>5
  <1>7. ASSUME ~Overlapping PROVE Told(to, <<>>)'
    <2>0. Told(at, x)
      BY <1>1, <1>7 DEF Talk
    <2>1. \A a \in {"opened", "closed", "refused"} \cup Going : Talks(a, <<>>) /\ b # a
      BY <1>2 DEF Talks, Talking, Refusing, Going
    <2>2. \A u \in Tasks : to[u] # at[u] => u = "main" /\ to[u] = b
      BY <1>5
    <2>3. ASSUME NEW u \in Tasks
          PROVE  /\ to[u] \in Coming \cup Stopping /\ Talks(to[u], <<>>) => ~active' /\ ~socket'
                 /\ to[u] = "opened" => active' /\ ~socket'
                 /\ to[u] \in Going => active' /\ socket'
                 /\ to[u] \in {"closed", "refused"} => ~active' /\ socket'
      <3>1. CASE to[u] = at[u]
        BY <1>1, <1>6, <2>0, <3>1 DEF Told
      <3>2. CASE to[u] # at[u]
        BY <1>4, <2>1, <2>2, <3>2
      <3>3. QED
        BY <3>1, <3>2
    <2> HIDE DEF to
    <2>4. \A u, v \in Tasks : Talks(to[u], <<>>) /\ Talks(to[v], <<>>) => u = v
      BY <1>1, <1>6, <2>0 DEF Told
    <2>5. (\A u \in Tasks : ~Talks(to[u], <<>>)) => socket' = active'
      BY <1>1, <1>6, <2>0 DEF Told
    <2>6. QED
      BY <2>3, <2>4, <2>5 DEF Told, Talks
  <1>8. Stack(to["main"])'
    <2>1. CASE bt.on
      <3>1. up = AllStages /\ ~active /\ b = "downFirst"
        BY <1>1, <1>2, <1>3, <2>1 DEF Stack
      <3>2. QED
        BY <1>1, <1>5, <3>1 DEF Stack, Talking, Starting, Stopping
    <2>2. CASE ~bt.on
      <3>1. StackOff /\ ~active /\ b = "bring"
        BY <1>1, <1>2, <1>3, <2>2 DEF Stack
      <3>2. StackOff'
        BY <1>1, <1>3, <3>1 DEF StackOff, Unheard, Noted
      <3>3. QED
        BY <1>1, <1>5, <3>1, <3>2 DEF Stack, Talking, Starting, Stopping
    <2>3. QED
      BY <2>1, <2>2
  <1>9. TypeOK'
    BY <1>1, <1>2 DEF StartBluetooth, StopMusic, TypeOK
  <1>10. Kept(to, <<>>)'
    BY <1>1, <1>3, <1>7, <1>8, <1>9 DEF Kept, Ordered, Talk
  <1>11. QED
    BY <1>10

\* A record task that the driver refuses stops the conversation.
LEMMA RecorderKept ==
  ASSUME SoundAssumption, NEW at, NEW x, Kept(at, x), NEW r \in Recorders,
         Recorder(r) \/ RecordEnded(r)
  PROVE  \E to, y : Kept(to, y)'
  <1> USE DEF driverVars, playVars, ttsVars, convVars
  <1>1. /\ TypeOK /\ x \in Nexts /\ bt \in Links /\ Talk(at, x) /\ Stack(at["main"])
        /\ Placed(at, x) /\ at \in [Tasks -> Places] /\ r \in Tasks /\ r # "main" /\ r # "radio"
        /\ "radio" \in Tasks /\ "main" \in Tasks
    BY DEF Kept, Ordered, Placed, Tasks, SoundAssumption
  <1>2. CASE RecordEnds(r)
    <2>1. /\ recording' \subseteq Recorders
          /\ UNCHANGED <<todo, active, socket, bt, up, run, valid, crashed>>
      BY <1>1, <1>2 DEF RecordEnds, TypeOK
    <2>2. TypeOK'
      BY <1>1, <1>2, <2>1 DEF RecordEnds, TypeOK
    <2>3. Placed(at, x)' /\ Talk(at, x)'
      BY <1>1, <2>1 DEF Placed, Talk, Told, Talks
    <2>4. Stack(at["main"])'
      BY <1>1, <2>1, StackStays
    <2>5. Owned(at)'
      BY <2>1 DEF Kept, Ordered, Owned, Owner, Held
    <2>6. Kept(at, x)'
      BY <1>1, <2>1, <2>2, <2>3, <2>4, <2>5 DEF Kept, Ordered
    <2>7. QED
      BY <2>6
  <1>3. CASE RecordEnded(r)
    <2>1. /\ At(r, "ended") /\ Continue(r, <<>>)
          /\ UNCHANGED <<active, socket, bt, up, run, valid, crashed>>
      BY <1>3 DEF RecordEnded, Done
    <2>2. TypeOK'
      BY <1>1, <1>3, <2>1 DEF RecordEnded, Continue, TypeOK
    <2>3. "ended" \in PlainOps /\ <<>> \in Seq(PlainStep)
      BY DEF PlainOps
    <2>4. Kept(at, x)'
      BY <1>1, <2>1, <2>2, <2>3, PlainKept
    <2>5. QED
      BY <2>4
  <1>4. CASE RecordRefused(r)
    <2> DEFINE s == StopConversation \o Ended
               to == [at EXCEPT ![r] = "regain"]
    <2>1. /\ ~Busy(r) /\ active /\ socket /\ MayBegin(r) /\ todo' = [todo EXCEPT ![r] = s]
          /\ UNCHANGED <<active, socket, bt, up, run, valid, crashed>>
      BY <1>4 DEF RecordRefused, Free, Ended
    <2>2. Leads(s, ToGo("regain", x)) /\ "regain" \in PlacesOf(r)
      BY <1>1, StopLeads DEF PlacesOf, Refusing
    <2>3. Placed(to, x)'
      <3> HIDE DEF s
      <3>1. QED
        BY <1>1, <2>1, <2>2, PlacedNext DEF TypeOK
    <2>4. /\ to[r] = "regain" /\ to["main"] = at["main"]
          /\ ~Overlapping => \A u \in Tasks \ {r} : ~Talks(to[u], x)
      <3>1. ~Overlapping => \A u \in Tasks \ {r} : ~Talks(at[u], x)
        BY <1>1, <2>1, Alone
      <3>2. QED
        BY <1>1, <3>1
    <2>5. ASSUME ~Overlapping PROVE Told(to, x)'
      <3>1. Talks("regain", x) /\ "regain" \notin Coming \cup Stopping
        BY DEF Talks, Refusing, Stopping, Coming
      <3> HIDE DEF to
      <3>2. QED
        BY <1>1, <2>1, <2>4, <2>5, <3>1, TalkBy
    <2>6. todo'["radio"] = todo["radio"]
      BY <1>1, <2>1 DEF TypeOK
    <2>7. Stack(to["main"])'
      BY <1>1, <2>1, <2>4, <2>6, StackStays
    <2>8. TypeOK'
      BY <1>1, <1>4, <2>1 DEF RecordRefused, TypeOK
    <2>9. Owned(to)'
      <3>1. at[r] = "none" /\ Owned(at) /\ bt'.started = bt.started
        BY <1>1, <2>1, TaskFree DEF Kept, Ordered
      <3>2. {"none", "regain"} \cap Handed = {}
        BY DEF Handed
      <3>3. QED
        BY <1>1, <2>1, <3>1, <3>2, OwnedMoves
    <2>10. Kept(to, x)'
      BY <1>1, <2>1, <2>3, <2>5, <2>7, <2>8, <2>9 DEF Kept, Ordered, Talk
    <2>11. QED
      BY <2>10
  <1>5. QED
    BY <1>2, <1>3, <1>4 DEF Recorder

\* The play task.
LEMMA PlayKept ==
  ASSUME SoundAssumption, NEW at, NEW x, Kept(at, x), PlayTask
  PROVE  Kept(at, x)'
  <1> USE DEF driverVars, playVars, ttsVars, convVars
  <1>1. /\ TypeOK /\ Stack(at["main"]) /\ "play" \in Tasks /\ "radio" \in Tasks /\ bt \in Links
        /\ {"write", "written"} \subseteq PlainOps
    BY DEF Kept, Ordered, Tasks, PlainOps
  <1>2. << Simple("write") >> \in Seq(PlainStep) /\ << Simple("written") >> \in Seq(PlainStep)
        /\ <<>> \in Seq(PlainStep)
    BY PlainSteps
  <1>3. CASE TakeClip
    <2> DEFINE e == (IF prevMode = "I2S_DAC" THEN <<>> ELSE Install(Speech, "I2S_DAC"))
                    \o << Simple("write") >>
    <2>1. /\ ~Busy("play") /\ todo' = [todo EXCEPT !["play"] = e]
          /\ UNCHANGED <<active, socket, bt, up, run, valid, crashed>>
      BY <1>3 DEF TakeClip, Free
    <2>2. Install(Speech, "I2S_DAC") \in Seq(PlainStep)
      BY PlainSequences DEF Configs, Modes
    <2>3. e \in Seq(PlainStep)
      BY <1>2, <2>2, ConcatProperties
    <2>4. Placed(at, x)' /\ Talk(at, x)' /\ Owned(at)'
      <3> HIDE DEF e
      <3>1. QED
        BY <1>1, <2>1, <2>3, PlainBegins
    <2>5. todo'["radio"] = todo["radio"]
      BY <1>1, <2>1 DEF TypeOK
    <2>6. Stack(at["main"])'
      BY <1>1, <2>1, <2>5, StackStays
    <2>7. queue' \in 0 .. QueueLen /\ prevMode' \in Modes
      BY <1>1, <1>3 DEF TakeClip, TypeOK, SoundAssumption, Modes
    <2>8. TypeOK'
      BY <1>1, <1>3, <2>1, <2>7 DEF TakeClip, TypeOK
    <2>9. QED
      BY <1>1, <2>1, <2>4, <2>6, <2>8 DEF Kept, Ordered
  <1>4. CASE WriteClip
    <2>1. At("play", "write") /\ Continue("play", << Simple("written") >>)
          /\ UNCHANGED <<active, socket, bt, up, run, valid, crashed>>
      BY <1>4 DEF WriteClip
    <2>2. writing' \in BOOLEAN
      BY <1>4 DEF WriteClip, Installed
    <2>3. TypeOK'
      BY <1>1, <1>4, <2>1, <2>2 DEF WriteClip, Continue, TypeOK
    <2>4. QED
      BY <1>1, <1>2, <2>1, <2>3, PlainKept
  <1>5. CASE ClipWritten
    <2>1. /\ At("play", "written") /\ Continue("play", <<>>)
          /\ UNCHANGED <<active, socket, bt, up, run, valid, crashed>>
      BY <1>5 DEF ClipWritten, Done
    <2>2. TypeOK'
      BY <1>1, <1>5, <2>1 DEF ClipWritten, Continue, TypeOK
    <2>3. QED
      BY <1>1, <1>2, <2>1, <2>2, PlainKept
  <1>6. CASE DriverStep("play")
    BY <1>1, <1>6, DriverKept
  <1>7. QED
    BY <1>3, <1>4, <1>5, <1>6 DEF PlayTask

-----------------------------------------------------------------------------
(* Bluetooth.                                                                *)

\* A step of start or stop of Bluetooth does not change who is in the conversation.
LEMMA AfterTalks ==
  ASSUME NEW x, NEW a \in Starting \cup Stopping
  PROVE  /\ Talks(After(a, x), x) <=> Talks(a, x)
         /\ Talks(After(a, x), x) => a \in Stopping /\ After(a, x) \in Coming \cup Stopping
  <1>1. CASE a \in Starting
    <2>1. After(a, x) \in {"failLast", "notOn", "none"}
      BY <1>1 DEF After, Starting
    <2>2. QED
      BY <1>1, <2>1 DEF Talks, Talking, Refusing, Starting, Stopping
  <1>2. CASE a \in Stopping /\ x = <<>>
    <2>1. After(a, x) \in Stopping \cup {"none"}
      BY <1>2 DEF After, Stopping
    <2>2. QED
      BY <1>2, <2>1 DEF Talks, Talking, Refusing, Stopping
  <1>3. CASE a \in Stopping /\ x # <<>>
    <2>1. After(a, x) \in Stopping \cup {"pause"}
      BY <1>3 DEF After, Stopping
    <2>2. QED
      BY <1>3, <2>1 DEF Talks, Talking, Refusing, Stopping, Coming
  <1>4. QED
    BY <1>1, <1>2, <1>3

\* The main task moves on to b.
LEMMA MainMoves ==
  ASSUME NEW at, NEW x, Kept(at, x), NEW b, Placed([at EXCEPT !["main"] = b], x)',
         UNCHANGED <<active, socket>>, Talks(b, x) <=> Talks(at["main"], x),
         Talks(b, x) => at["main"] \in Stopping /\ b \in Coming \cup Stopping,
         Stack(b)', TypeOK', bt' \in Links, Owned([at EXCEPT !["main"] = b])'
  PROVE  Kept([at EXCEPT !["main"] = b], x)'
  <1> DEFINE to == [at EXCEPT !["main"] = b]
  <1>1. at \in [Tasks -> Places] /\ Talk(at, x) /\ "main" \in Tasks
    BY DEF Kept, Ordered, Placed, Tasks
  <1>2. to["main"] = b
    BY <1>1
  <1>3. Talk(to, x)'
    BY <1>1, TalkKept
  <1>4. Stack(to["main"])'
    BY <1>2
  <1> HIDE DEF to
  <1>5. Placed(to, x)' /\ Owned(to)'
    BY DEF to
  <1>6. Kept(to, x)'
    BY <1>3, <1>4, <1>5 DEF Kept, Ordered
  <1>7. QED
    BY <1>6 DEF to

\* What a step of start or stop of Bluetooth finds.
LEMMA MainAt ==
  ASSUME SoundAssumption, NEW at, NEW x, Kept(at, x), NEW op \in ControlOps, At("main", op),
         op \notin {"active", "socket", "run", "takeOutput"}
  PROVE  /\ at["main"] \in Starting \cup Stopping /\ First1(at["main"]).op = op
         /\ Head(todo["main"]) = First1(at["main"])
         /\ Tail(todo["main"]) = Rest1(at["main"], x)
         /\ Stack(at["main"]) /\ TypeOK /\ x \in Nexts /\ bt \in Links /\ ~active
         /\ "main" \in Tasks /\ "radio" \in Tasks /\ Placed(at, x) /\ DOMAIN todo = Tasks
  <1>1. /\ at["main"] \in MainPlaces /\ Stack(at["main"]) /\ TypeOK /\ x \in Nexts
        /\ bt \in Links /\ "main" \in Tasks /\ "radio" \in Tasks /\ Placed(at, x)
        /\ DOMAIN todo = Tasks
    BY DEF Kept, Ordered, Placed, Tasks, TypeOK
  <1>2. /\ at["main"] # "none" /\ First1(at["main"]).op = op
        /\ Head(todo["main"]) = First1(at["main"]) /\ Tail(todo["main"]) = Rest1(at["main"], x)
    BY <1>1, AtStep
  <1>3. at["main"] \notin Talking
    <2>1. at["main"] \in Talking =>
            First1(at["main"]).op \in {"active", "socket", "run", "takeOutput"}
      BY DEF First1, Sets, Simple, Talking
    <2>2. QED
      BY <1>2, <2>1
  <1>4. at["main"] \in Starting \cup Stopping
    BY <1>1, <1>2, <1>3 DEF MainPlaces, Places
  <1>5. ~active
    BY <1>1, <1>4 DEF Stack
  <1>6. QED
    BY <1>1, <1>2, <1>4, <1>5

\* A step of start or stop of Bluetooth done, the main task is at the next place.
LEMMA MainDone ==
  ASSUME SoundAssumption, NEW at, NEW x, Kept(at, x), NEW op \in ControlOps, At("main", op),
         op \notin {"active", "socket", "run", "takeOutput"}, Done("main"),
         UNCHANGED <<active, socket>>, Stack(After(at["main"], x))', TypeOK', bt' \in Links,
         Owned([at EXCEPT !["main"] = After(at["main"], x)])'
  PROVE  Kept([at EXCEPT !["main"] = After(at["main"], x)], x)'
  <1>1. at["main"] \in Starting \cup Stopping /\ "main" \in Tasks
    BY MainAt
  <1> DEFINE b == After(at["main"], x)
  <1>2. Placed([at EXCEPT !["main"] = b], x)'
    BY <1>1, DoneMoves
  <1>3. /\ Talks(b, x) <=> Talks(at["main"], x)
        /\ Talks(b, x) => at["main"] \in Stopping /\ b \in Coming \cup Stopping
    BY <1>1, AfterTalks
  <1>4. Stack(b)' /\ Owned([at EXCEPT !["main"] = b])'
    OBVIOUS
  <1>5. PICK c : c = b
    OBVIOUS
  <1> HIDE DEF b
  <1>6. /\ Placed([at EXCEPT !["main"] = c], x)' /\ Stack(c)'
        /\ Owned([at EXCEPT !["main"] = c])'
        /\ Talks(c, x) <=> Talks(at["main"], x)
        /\ Talks(c, x) => at["main"] \in Stopping /\ c \in Coming \cup Stopping
    BY <1>2, <1>3, <1>4, <1>5
  <1>7. Kept([at EXCEPT !["main"] = c], x)'
    BY <1>6, MainMoves
  <1>8. QED
    BY <1>5, <1>7 DEF b

\* A step of start or stop of Bluetooth that says nothing of the output.
LEMMA OwnedGoes ==
  ASSUME NEW at, NEW x, Kept(at, x), NEW b, at["main"] \notin Handed, b \notin Handed,
         UNCHANGED <<active, run, valid, crashed>>, bt'.started = bt.started
  PROVE  Owned([at EXCEPT !["main"] = b])'
  <1>1. at \in [Tasks -> Places] /\ Owned(at) /\ "main" \in Tasks
    BY DEF Kept, Ordered, Placed, Tasks
  <1>2. QED
    BY <1>1, OwnedMoves

\* The stack comes up, or as far as it gets.
LEMMA BroughtKept ==
  ASSUME SoundAssumption, NEW at, NEW x, Kept(at, x), Brought
  PROVE  \E to, y : Kept(to, y)'
  <1> USE DEF driverVars, playVars, ttsVars, convVars
  <1>1. /\ At("main", "bring") /\ UNCHANGED <<active, socket, bt, run, valid, crashed>>
        /\ "bring" \in ControlOps
    BY DEF Brought, ControlOps
  <1>2. /\ Head(todo["main"]) = First1(at["main"]) /\ First1(at["main"]).op = "bring"
        /\ at["main"] \in Starting \cup Stopping /\ Tail(todo["main"]) = Rest1(at["main"], x)
        /\ Stack(at["main"]) /\ TypeOK /\ x \in Nexts /\ bt \in Links /\ ~active
        /\ "main" \in Tasks /\ "radio" \in Tasks /\ Placed(at, x) /\ DOMAIN todo = Tasks
    BY <1>1, MainAt
  <1>3. at["main"] = "bring" /\ Tail(todo["main"]) = <<>>
    <2>1. at["main"] \in Places \ {"none"}
      BY <1>2 DEF Places, Starting, Stopping
    <2>2. at["main"] = "bring"
      BY <1>2, <2>1, StepsOfPlaces
    <2>3. QED
      BY <1>2, <2>2 DEF Rest1
  <1>4. StackOff
    BY <1>2, <1>3 DEF Stack
  <1>5. PICK n \in 0 .. Len(Stages) :
          /\ up' = First(n)
          /\ Continue("main", IF n = Len(Stages) THEN << Simple("on") >> \o Say
                              ELSE TakeDown \o << Simple("notOn") >> \o Say)
    BY DEF Brought
  <1>6. /\ Len(Stages) = 6 /\ (n = 6 => up' = AllStages) /\ up' \subseteq AllStages
        /\ (n # 6 => "a2dp" \notin up')
    <2>1. Len(Stages) = 6
      BY DEF Stages
    <2>2. \A i \in 1 .. 5 : Stages[i] # "a2dp"
      BY DEF Stages
    <2>3. QED
      BY <1>5, <2>1, <2>2 DEF First, AllStages
  <1>7. PICK b, s :
          /\ b \in MainPlaces \ Handed /\ Leads(s, ToGo(b, x))
          /\ todo' = [todo EXCEPT !["main"] = s]
          /\ (b = "on" /\ n = 6) \/ (b = "failFirst" /\ n # 6)
    <2>1. {"on", "failFirst"} \subseteq MainPlaces \ Handed /\ MainPlaces \subseteq Places
      BY DEF MainPlaces, Places, Starting, Refusing, Lending, Handed
    <2>2. ToGo("on", x) \in Seq(Steps) /\ ToGo("failFirst", x) \in Seq(Steps)
      BY <1>2, <2>1, ToGoType
    <2>3. PICK q : q = IF n = 6 THEN ToGo("on", x) ELSE ToGo("failFirst", x)
      OBVIOUS
    <2>4. Continue("main", q)
      BY <1>2, <1>5, <1>6, <2>3, BluetoothLeads
    <2>5. q \in Seq(Steps)
      BY <2>2, <2>3
    <2>6. q \o Tail(todo["main"]) = q
      BY <1>3, <2>5, ConcatEmptySeq
    <2>7. todo' = [todo EXCEPT !["main"] = q] /\ Leads(q, q)
      BY <2>4, <2>5, <2>6, LeadsItself DEF Continue
    <2>8. QED
      BY <2>1, <2>3, <2>7
  <1>8. Placed([at EXCEPT !["main"] = b], x)'
    BY <1>2, <1>7, PlacedNext DEF PlacesOf
  <1>9. ~Talks(b, x) /\ ~Talks(at["main"], x)
    BY <1>3, <1>7 DEF Talks, Talking, Refusing, Stopping
  <1>10. todo'["radio"] = todo["radio"]
    BY <1>2, <1>7
  <1>11. Stack(b)'
    <2>1. CASE b = "on"
      BY <1>1, <1>2, <1>4, <1>6, <1>7, <2>1 DEF Stack, StackOff, Talking, Starting, Stopping
    <2>2. CASE b = "failFirst"
      <3>1. n # 6
        BY <1>7, <2>2
      <3>2. ~bt'.on /\ ~Noted' /\ Unheard'
        BY <1>1, <1>4, <1>6, <1>10, <3>1 DEF StackOff, Noted, Unheard
      <3>3. QED
        BY <1>1, <1>2, <2>2, <3>2 DEF Stack, Talking, Starting, Stopping
    <2>3. QED
      BY <1>7, <2>1, <2>2
  <1>12. TypeOK'
    BY <1>2, <1>6, <1>7 DEF Brought, TypeOK
  <1>13. Owned([at EXCEPT !["main"] = b])'
    <2>1. at["main"] \notin Handed /\ Owned(at) /\ at \in [Tasks -> Places]
      BY <1>2, <1>3 DEF Kept, Ordered, Placed, Handed
    <2>2. QED
      BY <1>1, <1>2, <1>7, <2>1, OwnedMoves
  <1>14. Kept([at EXCEPT !["main"] = b], x)'
    BY <1>1, <1>2, <1>8, <1>9, <1>11, <1>12, <1>13, MainMoves
  <1>15. QED
    BY <1>14

\* Stages go down.
LEMMA TakenDownKept ==
  ASSUME SoundAssumption, NEW at, NEW x, Kept(at, x), TakenDown
  PROVE  \E to, y : Kept(to, y)'
  <1> USE DEF driverVars, playVars, ttsVars, convVars
  <1>1. /\ At("main", "down") /\ Done("main")
        /\ UNCHANGED <<active, socket, bt, run, valid, crashed>> /\ "down" \in ControlOps
    BY DEF TakenDown, ControlOps
  <1>2. /\ Head(todo["main"]) = First1(at["main"]) /\ First1(at["main"]).op = "down"
        /\ at["main"] \in Starting \cup Stopping
        /\ Stack(at["main"]) /\ TypeOK /\ x \in Nexts /\ bt \in Links /\ ~active
        /\ "main" \in Tasks /\ "radio" \in Tasks /\ DOMAIN todo = Tasks
    BY <1>1, MainAt
  <1>3. at["main"] \in {"failFirst", "failLast", "downFirst", "downLast"}
    <2>1. at["main"] \in Places \ {"none"}
      BY <1>2 DEF Places, Starting, Stopping
    <2>2. QED
      BY <1>2, <2>1, StepsOfPlaces
  <1>4. todo'["radio"] = todo["radio"]
    BY <1>1, <1>2 DEF Done, Continue
  <1>5. /\ at["main"] \in {"failFirst", "downFirst"} => up' = up \ Profiles
        /\ at["main"] \in {"failLast", "downLast"} =>
             up' = up \ (AllStages \ Profiles) /\ ~Busy("radio")
    <2>1. AllStages \ Profiles # Profiles
      <3>1. "controller" \notin Profiles /\ "controller" \in AllStages
        BY DEF Profiles, AllStages, First, Stages
      <3>2. QED
        BY <3>1
    <2>2. up' = up \ Head(todo["main"]).s /\ (Head(todo["main"]).s # Profiles => ~Busy("radio"))
      BY DEF TakenDown
    <2>3. at["main"] \in {"failFirst", "downFirst"} => First1(at["main"]).s = Profiles
      BY DEF First1, Down
    <2>4. at["main"] \in {"failLast", "downLast"} => First1(at["main"]).s = AllStages \ Profiles
      BY DEF First1, Down
    <2>5. QED
      BY <1>2, <2>1, <2>2, <2>3, <2>4
  <1>6. up' \subseteq up /\ up \subseteq AllStages /\ "a2dp" \in Profiles
    BY <1>2, <1>3, <1>5 DEF TypeOK, Profiles
  <1>7. Stack(After(at["main"], x))'
    <2>1. CASE at["main"] = "failFirst"
      <3>1. After(at["main"], x) = "failLast"
        BY <2>1 DEF After
      <3>2. ~bt'.on /\ ~Noted' /\ Unheard' /\ up' \cap Profiles = {}
        BY <1>1, <1>2, <1>4, <1>5, <1>6, <2>1 DEF Stack, Noted, Unheard
      <3>3. QED
        BY <1>1, <1>2, <3>1, <3>2 DEF Stack, Talking, Starting, Stopping
    <2>2. CASE at["main"] = "failLast"
      <3>1. After(at["main"], x) = "notOn"
        BY <2>2 DEF After
      <3>2. up' = {}
        BY <1>2, <1>5, <1>6, <2>2 DEF Stack
      <3>3. StackOff'
        BY <1>1, <1>2, <1>4, <2>2, <3>2 DEF Stack, StackOff, Noted, Unheard
      <3>4. QED
        BY <1>1, <1>2, <3>1, <3>3 DEF Stack, Talking, Starting, Stopping
    <2>3. CASE at["main"] = "downFirst"
      <3>1. After(at["main"], x) = "downLast"
        BY <2>3 DEF After
      <3>2. up' \cap Profiles = {}
        BY <1>5, <2>3
      <3>3. QED
        BY <1>1, <1>2, <3>1, <3>2 DEF Stack, Talking, Starting, Stopping
    <2>4. CASE at["main"] = "downLast"
      <3>1. After(at["main"], x) = "parting"
        BY <2>4 DEF After
      <3>2. up' = {}
        BY <1>2, <1>5, <1>6, <2>4 DEF Stack
      <3>3. Unheard'
        BY <1>4, <1>5, <2>4, <3>2 DEF Unheard, Busy
      <3>4. QED
        BY <1>1, <1>2, <3>1, <3>2, <3>3 DEF Stack, Talking, Starting, Stopping
    <2>5. QED
      BY <1>3, <2>1, <2>2, <2>3, <2>4
  <1>8. TypeOK'
    BY <1>1, <1>2, <1>6 DEF TakenDown, Done, Continue, TypeOK
  <1>9. Owned([at EXCEPT !["main"] = After(at["main"], x)])'
    <2>1. at["main"] \notin Handed /\ After(at["main"], x) \notin Handed
      BY <1>3 DEF Handed, After
    <2>2. QED
      BY <1>1, <1>2, <2>1, OwnedGoes
  <1>10. Kept([at EXCEPT !["main"] = After(at["main"], x)], x)'
    BY <1>1, <1>2, <1>7, <1>8, <1>9, MainDone
  <1>11. QED
    BY <1>10

\* The fields of Bluetooth follow.
LEMMA SwitchedKept ==
  ASSUME SoundAssumption, NEW at, NEW x, Kept(at, x), TurnedOn \/ TurnedOff \/ NotStarted
  PROVE  \E to, y : Kept(to, y)'
  <1> USE DEF driverVars, playVars, ttsVars, convVars
  <1>1. PICK op \in {"on", "notOn", "off", "notStarted"} :
          /\ At("main", op) /\ Done("main")
          /\ UNCHANGED <<active, socket, up, run, valid, crashed>>
          /\ op \in {"on", "notOn"} => TurnedOn
          /\ op = "off" => TurnedOff
          /\ op = "notStarted" => NotStarted
    BY DEF TurnedOn, TurnedOff, NotStarted
  <1>2. op \in ControlOps /\ op \notin {"active", "socket", "run", "takeOutput"}
    BY DEF ControlOps
  <1>3. /\ First1(at["main"]).op = op
        /\ at["main"] \in Starting \cup Stopping
        /\ Stack(at["main"]) /\ TypeOK /\ x \in Nexts /\ bt \in Links /\ ~active
        /\ "main" \in Tasks /\ "radio" \in Tasks /\ DOMAIN todo = Tasks
    BY <1>1, <1>2, MainAt
  <1>4. at["main"] = IF op = "notStarted" THEN "parted" ELSE op
    <2>1. at["main"] \in Places \ {"none"}
      BY <1>3 DEF Places, Starting, Stopping
    <2>2. QED
      BY <1>3, <2>1, StepsOfPlaces
  <1>5. todo'["radio"] = todo["radio"]
    BY <1>1, <1>3 DEF Done, Continue
  <1>6. TypeOK'
    BY <1>1, <1>3 DEF TurnedOn, TurnedOff, NotStarted, Done, Continue, TypeOK
  <1>7. Stack(After(at["main"], x))' /\ bt' \in Links
    <2>1. CASE op \in {"on", "notOn"}
      <3>1. After(at["main"], x) = "none"
        BY <1>4, <2>1 DEF After
      <3>2. (op = "on" => At("main", "on") = TRUE) /\ (op = "notOn" => At("main", "on") = FALSE)
        BY <1>1 DEF At
      <3>3. bt' = [bt EXCEPT !.on = At("main", "on")]
        BY <1>1, <2>1 DEF TurnedOn
      <3>4. CASE op = "on"
        <4>1. bt' = [bt EXCEPT !.on = TRUE]
          BY <3>2, <3>3, <3>4
        <4>2. bt' \in Links /\ bt'.on
          BY <1>3, <4>1 DEF Links
        <4>3. up' = AllStages /\ ~active'
          BY <1>1, <1>3, <1>4, <3>4 DEF Stack
        <4>4. QED
          BY <3>1, <4>2, <4>3 DEF Stack, Talking, Starting, Stopping
      <3>5. CASE op = "notOn"
        <4>1. bt' = [bt EXCEPT !.on = FALSE]
          BY <3>2, <3>3, <3>5
        <4>2. /\ bt' \in Links /\ ~bt'.on /\ bt'.connected = bt.connected
              /\ bt'.playing = bt.playing /\ bt'.started = bt.started
          BY <1>3, <4>1 DEF Links
        <4>3. StackOff
          BY <1>3, <1>4, <3>5 DEF Stack
        <4>4. StackOff'
          BY <1>1, <1>5, <4>2, <4>3 DEF StackOff, Noted, Unheard
        <4>5. QED
          BY <3>1, <4>2, <4>4 DEF Stack, Talking, Starting, Stopping
      <3>6. QED
        BY <2>1, <3>4, <3>5
    <2>2. CASE op = "off"
      <3>1. bt' = [bt EXCEPT !.on = FALSE, !.connected = FALSE, !.playing = FALSE]
        BY <1>1, <2>2 DEF TurnedOff
      <3>2. /\ bt' \in Links /\ ~bt'.on /\ ~bt'.connected /\ ~bt'.playing
            /\ bt'.started = bt.started
        BY <1>3, <3>1 DEF Links
      <3>3. up = {} /\ Unheard /\ ~bt.started
        BY <1>3, <1>4, <2>2 DEF Stack
      <3>4. StackOff'
        BY <1>1, <1>5, <3>2, <3>3 DEF StackOff, Noted, Unheard
      <3>5. After(at["main"], x) \in {"none", "pause"}
        BY <1>4, <2>2 DEF After
      <3>6. QED
        BY <3>2, <3>4, <3>5 DEF Stack, Talking, Starting, Stopping
    <2>3. CASE op = "notStarted"
      <3>1. bt' = [bt EXCEPT !.started = FALSE]
        BY <1>1, <2>3 DEF NotStarted
      <3>2. bt' \in Links /\ ~bt'.started
        BY <1>3, <3>1 DEF Links
      <3>3. up' = {} /\ Unheard' /\ ~active'
        BY <1>1, <1>3, <1>4, <1>5, <2>3 DEF Stack, Unheard
      <3>4. After(at["main"], x) = "off"
        BY <1>4, <2>3 DEF After
      <3>5. QED
        BY <3>2, <3>3, <3>4 DEF Stack, Talking, Starting, Stopping
    <2>4. QED
      BY <2>1, <2>2, <2>3
  <1>8. Owned([at EXCEPT !["main"] = After(at["main"], x)])'
    <2>1. CASE op # "notStarted"
      <3>1. at["main"] \notin Handed /\ After(at["main"], x) \notin Handed
        BY <1>4, <2>1 DEF Handed, After
      <3>2. bt'.started = bt.started
        BY <1>1, <1>3, <2>1 DEF TurnedOn, TurnedOff, Links
      <3>3. QED
        BY <1>1, <1>3, <3>1, <3>2, OwnedGoes
    <2>2. CASE op = "notStarted"
      <3>1. at["main"] = "parted" /\ After(at["main"], x) = "off"
        BY <1>4, <2>2 DEF After
      <3>2. bt' = [bt EXCEPT !.started = FALSE]
        BY <1>1, <2>2 DEF NotStarted
      <3>3. ~bt'.started /\ ~active /\ Unheard
        BY <1>3, <3>1, <3>2 DEF Links, Stack, Stopping
      <3>4. /\ at \in [Tasks -> Places] /\ Owned(at) /\ at["radio"] = "none"
        BY <1>3, <3>3, TaskFree DEF Kept, Ordered, Placed, Unheard, Busy
      <3> DEFINE to == [at EXCEPT !["main"] = "off"]
      <3>5. to["main"] = "off" /\ to["radio"] = "none"
        BY <1>3, <3>4
      <3> HIDE DEF to
      <3>6. ~Held(at) /\ ~Held(to)'
        BY <1>1, <3>1, <3>3, <3>4, <3>5 DEF Held
      <3>7. Owned(to)'
        BY <1>1, <3>4, <3>6 DEF Owned, Owner
      <3>8. PICK c : c = After(at["main"], x) /\ c = "off"
        BY <3>1
      <3>9. QED
        BY <3>7, <3>8 DEF to
    <2>3. QED
      BY <2>1, <2>2
  <1>9. Kept([at EXCEPT !["main"] = After(at["main"], x)], x)'
    BY <1>1, <1>2, <1>6, <1>7, <1>8, MainDone
  <1>10. QED
    BY <1>9

\* What stop of Bluetooth still has to do when music has taken the output.
LEMMA ReturnSteps ==
  ASSUME NEW x \in Nexts
  PROVE  /\ (Reset \o << Simple("notStarted") >>) \o (Say \o Off(x))
                = Reconfigure(Speech, "I2S_DAC") \o ToGo("return", x)
         /\ Reconfigure(Speech, "I2S_DAC") \in Seq(PlainStep) /\ ToGo("return", x) \in Seq(Steps)
  <1> DEFINE n == << Simple("notStarted") >>
             rest == Say \o Off(x)
             conf == Reconfigure(Speech, "I2S_DAC")
             r == << Sets("run", TRUE) >>
             s == ((conf \o r) \o n) \o rest
  <1>1. s = (Reset \o << Simple("notStarted") >>) \o (Say \o Off(x))
    BY DEF Reset, Sets
  <1>2. "return" \in Places /\ "off" \in Places
    BY DEF Places, Stopping
  <1>3. conf \in Seq(PlainStep) /\ n \in Seq(Steps) /\ r \in Seq(Steps)
    BY PlainSequences, ControlSequences DEF Configs, Modes
  <1>4. rest \in Seq(Steps)
    <2>1. ToGo("off", x) = Off(x)
      BY DEF ToGo
    <2>2. Off(x) \in Seq(Steps)
      BY <1>2, <2>1, ToGoType
    <2>3. Say \in Seq(Steps)
      BY PlainSequences, PlainIsStep
    <2>4. QED
      BY <2>2, <2>3, Joined
  <1>5. ToGo("return", x) = r \o (n \o rest) /\ ToGo("return", x) \in Seq(Steps)
    BY <1>2, ToGoType DEF ToGo, Return, Parted
  <1>6. SameOf4(conf, r, n, rest)
    <2> HIDE DEF conf, r, n, rest
    <2>1. QED
      BY <1>3, <1>4, PlainIsStep, Joined4
  <1> HIDE DEF conf, r, n, rest
  <1>7. s = conf \o ToGo("return", x)
    BY <1>5, <1>6, Zenon DEF SameOf4
  <1> HIDE DEF s
  <1>8. QED
    BY <1>1, <1>3, <1>5, <1>7 DEF conf

\* Music gives the output back, if it had it.
LEMMA HandBackKept ==
  ASSUME SoundAssumption, NEW at, NEW x, Kept(at, x), HandBack
  PROVE  \E to, y : Kept(to, y)'
  <1> USE DEF driverVars, playVars, ttsVars, convVars
  <1>1. /\ At("main", "handBack") /\ UNCHANGED <<active, socket, bt, up, run, valid, crashed>>
        /\ "handBack" \in ControlOps
        /\ Continue("main", IF bt.started THEN Reset \o << Simple("notStarted") >> ELSE <<>>)
    BY DEF HandBack, ControlOps
  <1>2. /\ First1(at["main"]).op = "handBack" /\ Tail(todo["main"]) = Rest1(at["main"], x)
        /\ at["main"] \in Starting \cup Stopping
        /\ Stack(at["main"]) /\ TypeOK /\ x \in Nexts /\ bt \in Links /\ ~active
        /\ "main" \in Tasks /\ "radio" \in Tasks /\ DOMAIN todo = Tasks /\ Placed(at, x)
    BY <1>1, MainAt
  <1>3. at["main"] = "parting" /\ Tail(todo["main"]) = Say \o Off(x)
    <2>1. at["main"] \in Places \ {"none"}
      BY <1>2 DEF Places, Starting, Stopping
    <2>2. at["main"] = "parting"
      BY <1>2, <2>1, StepsOfPlaces
    <2>3. QED
      BY <1>2, <2>2 DEF Rest1, ToGo
  <1>4. todo'["radio"] = todo["radio"]
    BY <1>1, <1>2 DEF Continue
  <1>5. TypeOK'
    BY <1>1, <1>2 DEF HandBack, Continue, TypeOK
  <1>6. up' = {} /\ Unheard' /\ ~active'
    BY <1>1, <1>2, <1>3, <1>4 DEF Stack, Unheard
  <1>7. CASE bt.started
    <2> DEFINE conf == Reconfigure(Speech, "I2S_DAC")
               s == (Reset \o << Simple("notStarted") >>) \o (Say \o Off(x))
    <2>1. todo' = [todo EXCEPT !["main"] = s]
      BY <1>1, <1>2, <1>3, <1>7 DEF Continue
    <2>2. "return" \in MainPlaces \ Handed /\ "off" \in Places /\ MainPlaces \subseteq Places
      BY DEF MainPlaces, Places, Stopping, Refusing, Lending, Handed
    <2>3. Leads(s, ToGo("return", x))
      <3>1. /\ s = conf \o ToGo("return", x) /\ conf \in Seq(PlainStep)
            /\ ToGo("return", x) \in Seq(Steps)
        BY <1>2, ReturnSteps
      <3> HIDE DEF conf, s
      <3>2. Leads(conf \o ToGo("return", x), ToGo("return", x))
        BY <3>1, LeadsItself
      <3>3. QED
        BY <3>1, <3>2
    <2> HIDE DEF conf, s
    <2>4. Placed([at EXCEPT !["main"] = "return"], x)'
      BY <1>2, <2>1, <2>2, <2>3, PlacedNext DEF PlacesOf
    <2>5. /\ Talks("return", x) <=> Talks(at["main"], x)
          /\ Talks("return", x) => at["main"] \in Stopping /\ "return" \in Coming \cup Stopping
      BY <1>3 DEF Talks, Talking, Refusing, Stopping
    <2>6. Stack("return")'
      BY <1>6 DEF Stack, Talking, Starting, Stopping
    <2>7. Owned([at EXCEPT !["main"] = "return"])'
      <3>1. at["main"] \notin Handed
        BY <1>3 DEF Handed
      <3>2. QED
        BY <1>1, <1>2, <2>2, <3>1, OwnedGoes
    <2>8. Kept([at EXCEPT !["main"] = "return"], x)'
      BY <1>1, <1>2, <1>5, <2>4, <2>5, <2>6, <2>7, MainMoves
    <2>9. QED
      BY <2>8
  <1>8. CASE ~bt.started
    <2>1. Done("main")
      BY <1>1, <1>8 DEF Done
    <2>2. After(at["main"], x) = "off"
      BY <1>3 DEF After
    <2>3. Stack(After(at["main"], x))'
      BY <1>1, <1>6, <1>8, <2>2 DEF Stack, Talking, Starting, Stopping
    <2>4. Owned([at EXCEPT !["main"] = After(at["main"], x)])'
      <3>1. at["main"] \notin Handed /\ After(at["main"], x) \notin Handed
        BY <1>3, <2>2 DEF Handed
      <3>2. QED
        BY <1>1, <1>2, <3>1, OwnedGoes
    <2>5. Kept([at EXCEPT !["main"] = After(at["main"], x)], x)'
      BY <1>1, <1>2, <1>5, <2>1, <2>3, <2>4, MainDone
    <2>6. QED
      BY <2>5
  <1>9. QED
    BY <1>7, <1>8

\* While the task of Bluetooth has something to do, or may be called, what it notes
\* is the stack's own.
LEMMA StackHeard ==
  ASSUME NEW a \in Places, Stack(a), ~Unheard, UNCHANGED <<active, up>>, bt'.on = bt.on
  PROVE  Stack(a)'
  <1>1. /\ ~StackOff
        /\ a \notin Talking \cup {"bring", "notOn", "failFirst", "failLast", "parting", "return",
                                  "parted", "off"}
    BY DEF Stack, StackOff
  <1>2. a \in {"none", "on", "downFirst", "downLast"} \cup Refusing \cup Lending
    BY <1>1 DEF Places, Starting, Stopping
  <1>3. a = "none" => bt.on /\ up = AllStages /\ ~active
    BY <1>1 DEF Stack
  <1>4. CASE a \in {"none", "on", "downFirst", "downLast"}
    BY <1>3, <1>4 DEF Stack, Talking, Starting, Stopping
  <1>5. CASE a \in Refusing \cup Lending
    BY <1>5 DEF Stack, Talking, Starting, Stopping, Refusing, Lending
  <1>6. QED
    BY <1>2, <1>4, <1>5

\* The callbacks of Bluetooth.
LEMMA RadioKept ==
  ASSUME SoundAssumption, NEW at, NEW x, Kept(at, x), Lend \/ Started \/ Phone
  PROVE  \E to : Kept(to, x)'
  <1> USE DEF driverVars, playVars, ttsVars, convVars
  <1>1. /\ TypeOK /\ Stack(at["main"]) /\ bt \in Links /\ Placed(at, x) /\ Talk(at, x)
        /\ at["main"] \in Places /\ "radio" \in Tasks /\ x \in Nexts /\ DOMAIN todo = Tasks
        /\ at \in [Tasks -> Places] /\ "radio" \notin Recorders \cup {"main"} /\ Owned(at)
        /\ {"lend", "started"} \subseteq ControlOps /\ at["radio"] \in Places /\ "main" \in Tasks
        /\ at["main"] \in MainPlaces
        /\ \A u \in Tasks \ {"main"} : at[u] \notin {"parted"} \cup Talking
    BY DEF Kept, Ordered, Placed, Tasks, TypeOK, ControlOps, SoundAssumption, Refusing, Lending,
       Talking
  <1>2. /\ <<>> \in Seq(PlainStep) /\ Say \in Seq(PlainStep)
        /\ Reconfigure(Music, "I2S_DAC") \in Seq(PlainStep)
    BY PlainSequences DEF Configs, Modes
  <1>p. PlacesOf("radio") = {"none"} \cup Lending
    BY <1>1 DEF PlacesOf
  <1>t. \A a \in {"none"} \cup Lending : ~Talks(a, x)
    BY DEF Talks, Talking, Refusing, Stopping, Lending
  <1>3. CASE Lend
    <2> DEFINE conf == Reconfigure(Music, "I2S_DAC")
               n == << Simple("started") >>
               e == IF run THEN <<>> ELSE conf \o n
               b == IF run THEN "none" ELSE "lent"
               to == [at EXCEPT !["radio"] = b]
    <2>1. /\ At("radio", "lend") /\ Continue("radio", e)
          /\ UNCHANGED <<active, socket, bt, up, run, valid, crashed>>
      BY <1>3 DEF Lend
    <2>2. at["radio"] = "lend" /\ Tail(todo["radio"]) = <<>>
      <3>1. at["radio"] # "none" /\ Tail(todo["radio"]) = Rest1(at["radio"], x)
            /\ First1(at["radio"]).op = "lend"
        BY <1>1, <2>1, AtStep
      <3>2. First1(at["radio"]).op = "lend" <=> at["radio"] = "lend"
        BY <1>1, <3>1, StepsOfPlaces
      <3>3. QED
        BY <3>1, <3>2 DEF Rest1
    <2>3. e \in Seq(Steps) /\ Leads(e, ToGo(b, x))
      <3>1. n \in Seq(Steps) /\ n \o <<>> = n
        BY ControlSequences, ConcatEmptySeq
      <3>2. ToGo("lent", x) = n /\ ToGo("none", x) = <<>>
        BY <3>1 DEF ToGo
      <3>3. conf \in Seq(PlainStep) /\ conf \in Seq(Steps)
        BY <1>2, PlainIsStep
      <3> HIDE DEF conf, n
      <3>4. CASE run
        BY <1>2, <3>2, <3>4, LeadsItself, PlainIsStep
      <3>5. CASE ~run
        <4>1. conf \o n \in Seq(Steps) /\ Leads(conf \o n, n)
          BY <3>1, <3>3, LeadsItself, Joined
        <4>2. QED
          BY <3>2, <3>5, <4>1
      <3>6. QED
        BY <3>4, <3>5
    <2>4. PICK s, c : s = e /\ c = b
      OBVIOUS
    <2>5. c \in {"none", "lent"} /\ (c = "none" <=> run)
      BY <2>4
    <2> HIDE DEF e, b
    <2>6. todo' = [todo EXCEPT !["radio"] = s] /\ Leads(s, ToGo(c, x))
      <3>1. s \o Tail(todo["radio"]) = s
        BY <2>2, <2>3, <2>4, ConcatEmptySeq
      <3>2. QED
        BY <2>1, <2>3, <2>4, <3>1 DEF Continue
    <2>7. Placed([at EXCEPT !["radio"] = c], x)'
      BY <1>1, <1>p, <2>5, <2>6, PlacedNext DEF Lending
    <2>8. Talk([at EXCEPT !["radio"] = c], x)'
      <3>1. ~Talks(c, x) /\ ~Talks(at["radio"], x)
        BY <1>t, <2>2, <2>5 DEF Lending
      <3>2. QED
        BY <1>1, <2>1, <3>1, TalkKept
    <2>9. Stack(at["main"])'
      BY <1>1, <2>1, StackStays DEF At, Busy, Unheard
    <2>10. TypeOK'
      BY <1>1, <1>3 DEF Lend, Continue, TypeOK
    <2> DEFINE it == [at EXCEPT !["radio"] = c]
    <2>11. it["main"] = at["main"] /\ it["radio"] = c
      BY <1>1
    <2> HIDE DEF it
    <2>12. Owned(it)'
      <3>1. SUFFICES ASSUME ~Overlapping PROVE Owner(it)'
        BY DEF Owned
      <3>2. Owner(at) /\ Held(at)
        BY <1>1, <2>2, <3>1 DEF Owned, Held
      <3>3. ~run /\ c = "lent"
        BY <2>5, <3>2 DEF Owner
      <3>4. Held(it)'
        BY <2>11, <3>3 DEF Held
      <3>5. QED
        BY <2>1, <3>2, <3>3, <3>4 DEF Owner
    <2>13. Kept(it, x)'
      BY <1>1, <2>1, <2>7, <2>8, <2>9, <2>10, <2>11, <2>12 DEF Kept, Ordered, it
    <2>14. QED
      BY <2>13
  <1>4. CASE Started
    <2>1. /\ At("radio", "started") /\ Done("radio")
          /\ UNCHANGED <<active, socket, up, run, valid, crashed>>
          /\ bt' = [bt EXCEPT !.started = TRUE]
      BY <1>4 DEF Started
    <2> DEFINE to == [at EXCEPT !["radio"] = "none"]
    <2>2. Busy("radio")
      BY <2>1 DEF At
    <2>3. at["radio"] = "lent" /\ Placed([at EXCEPT !["radio"] = After(at["radio"], x)], x)'
      <3>1. /\ at["radio"] \in Places \ {"none"} /\ First1(at["radio"]).op = "started"
            /\ Placed([at EXCEPT !["radio"] = After(at["radio"], x)], x)'
        BY <1>1, <2>1, DoneMoves
      <3>2. QED
        BY <3>1, StepsOfPlaces
    <2>4. After(at["radio"], x) = "none"
      BY <2>3 DEF After
    <2>5. Placed(to, x)'
      <3>1. PICK c : c = After(at["radio"], x)
        OBVIOUS
      <3>2. Placed([at EXCEPT !["radio"] = c], x)' /\ c = "none"
        BY <2>3, <2>4, <3>1
      <3>3. QED
        BY <3>2
    <2>6. Talk(to, x)'
      <3>1. ~Talks("none", x) /\ ~Talks(at["radio"], x)
        BY <1>t, <2>3 DEF Lending
      <3>2. QED
        BY <1>1, <2>1, <3>1, TalkKept
    <2>7. bt' \in Links /\ bt'.on = bt.on /\ bt'.started /\ ~Unheard
      BY <1>1, <2>1, <2>2 DEF Links, Unheard, Busy
    <2>8. Stack(at["main"])'
      BY <1>1, <2>1, <2>7, StackHeard
    <2>9. TypeOK'
      BY <1>1, <1>4 DEF Started, Done, Continue, TypeOK
    <2>10. to["main"] = at["main"]
      BY <1>1
    <2> HIDE DEF to
    <2>11. Owned(to)'
      <3>1. SUFFICES ASSUME ~Overlapping PROVE Owner(to)'
        BY DEF Owned
      <3>2. Owner(at) /\ Held(at)
        BY <1>1, <2>3, <3>1 DEF Owned, Held
      <3>3. at["main"] # "parted"
        BY <1>1, <2>7 DEF Stack
      <3>4. Held(to)'
        BY <2>7, <2>10, <3>3 DEF Held
      <3>5. QED
        BY <2>1, <3>2, <3>4 DEF Owner
    <2>12. Kept(to, x)'
      BY <2>5, <2>6, <2>7, <2>8, <2>9, <2>10, <2>11 DEF Kept, Ordered
    <2>13. QED
      BY <2>12
  <1>5. CASE Phone
    <2>1. /\ ~Busy("radio") /\ "a2dp" \in up
          /\ UNCHANGED <<active, socket, up, run, valid, crashed>>
          /\ bt' \in Links /\ bt'.on = bt.on /\ bt'.started = bt.started
      <3>1. CASE LinkUp
        BY <1>1, <3>1 DEF LinkUp, Listening, Free, Links
      <3>2. CASE LinkDown
        BY <1>1, <3>2 DEF LinkDown, Listening, Free, Links
      <3>3. CASE MusicStarts
        BY <1>1, <3>3 DEF MusicStarts, Listening, Free, Links
      <3>4. CASE MusicStops
        BY <1>1, <3>4 DEF MusicStops, Listening, Free, Links
      <3>5. QED
        BY <1>5, <3>1, <3>2, <3>3, <3>4 DEF Phone
    <2>2. Stack(at["main"])'
      BY <1>1, <2>1, StackHeard DEF Unheard
    <2>3. TypeOK'
      BY <1>1, <1>5, <2>1 DEF Phone, LinkUp, LinkDown, MusicStarts, MusicStops, TypeOK
    <2>4. at["radio"] = "none"
      BY <1>1, <2>1, TaskFree
    <2> DEFINE d == << [op |-> "run", v |-> FALSE], Simple("lend") >>
    <2>5. \/ todo' = todo
          \/ todo' = [todo EXCEPT !["radio"] = Say]
          \/ todo' = [todo EXCEPT !["radio"] = <<>>]
          \/ todo' = [todo EXCEPT !["radio"] = d]
      BY <1>5 DEF Phone, LinkUp, LinkDown, MusicStarts, MusicStops
    <2>6. d = ToGo("hush", x) /\ d \in Seq(Steps)
      <3>1. << Simple("lend") >> \o <<>> = << Simple("lend") >>
        BY ControlSequences, ConcatEmptySeq
      <3>2. d = << Sets("run", FALSE) >> \o << Simple("lend") >>
        BY TwoSteps DEF Sets
      <3>3. "hush" \in Places
        BY DEF Places, Lending
      <3> HIDE DEF d
      <3>4. d = ToGo("hush", x)
        BY <3>1, <3>2 DEF ToGo
      <3>5. QED
        BY <1>1, <3>3, <3>4, ToGoType
    <2> HIDE DEF d
    <2>7. CASE todo' = todo
      <3>1. Placed(at, x)' /\ Talk(at, x)' /\ Owned(at)'
        BY <1>1, <2>1, <2>7 DEF Placed, Talk, Told, Talks, Owned, Owner, Held, Leads
      <3>2. Kept(at, x)'
        BY <2>1, <2>2, <2>3, <3>1 DEF Kept, Ordered
      <3>3. QED
        BY <3>2
    <2>8. ASSUME NEW e \in Seq(PlainStep), todo' = [todo EXCEPT !["radio"] = e]
          PROVE  \E to : Kept(to, x)'
      <3>1. Placed(at, x)' /\ Talk(at, x)' /\ Owned(at)'
        BY <1>1, <2>1, <2>8, PlainBegins
      <3>2. Kept(at, x)'
        BY <2>1, <2>2, <2>3, <3>1 DEF Kept, Ordered
      <3>3. QED
        BY <3>2
    <2>9. CASE todo' = [todo EXCEPT !["radio"] = d]
      <3> DEFINE to == [at EXCEPT !["radio"] = "hush"]
      <3>1. Leads(d, ToGo("hush", x)) /\ "hush" \in PlacesOf("radio")
        <4>1. Leads(ToGo("hush", x), ToGo("hush", x))
          <5>1. ToGo("hush", x) \in Seq(Steps)
            BY <2>6
          <5>2. <<>> \in Seq(PlainStep) /\ <<>> \o ToGo("hush", x) = ToGo("hush", x)
            BY <5>1, ConcatEmptySeq
          <5>3. QED
            BY <5>2 DEF Leads
        <4>2. QED
          BY <1>p, <2>6, <4>1 DEF Lending
      <3>2. Placed(to, x)'
        BY <1>1, <2>9, <3>1, PlacedNext
      <3>3. Talk(to, x)'
        <4>1. ~Talks("hush", x) /\ ~Talks(at["radio"], x)
          BY <1>t, <2>4 DEF Lending
        <4>2. QED
          BY <1>1, <2>1, <4>1, TalkKept
      <3>4. Owned(to)'
        <4>1. "hush" \notin Handed /\ at["radio"] \notin Handed
          BY <2>4 DEF Handed
        <4>2. QED
          BY <1>1, <2>1, <4>1, OwnedMoves
      <3>5. to["main"] = at["main"]
        BY <1>1
      <3> HIDE DEF to
      <3>6. Kept(to, x)'
        BY <2>1, <2>2, <2>3, <3>2, <3>3, <3>4, <3>5 DEF Kept, Ordered
      <3>7. QED
        BY <3>6
    <2>10. QED
      BY <1>2, <2>5, <2>7, <2>8, <2>9
  <1>6. QED
    BY <1>3, <1>4, <1>5
-----------------------------------------------------------------------------
(* The driver.                                                               *)

DriverOps == {"uninstall", "setup", "pins", "port"}
CalmStep == {s \in PlainStep : s.op \notin DriverOps}
Rests == {r \in Seq(Steps) : r # <<>> => Head(r) \in ControlStep}

(* Before its next control step, the head of r, a task still has the steps d to do *)
(* on the driver, between others; or it has none to do.                            *)
Drives(s, d, r) == \E f, g \in Seq(CalmStep) : s = f \o (d \o (g \o r))
Still(s) == \E r \in Rests : Drives(s, <<>>, r)

LEMMA CalmIsPlain ==
  /\ CalmStep \subseteq PlainStep /\ PlainStep \subseteq Steps
  /\ \A s \in Seq(CalmStep) : s \in Seq(PlainStep) /\ s \in Seq(Steps)
  /\ <<>> \in Seq(CalmStep)
  <1>1. CalmStep \subseteq PlainStep /\ PlainStep \subseteq Steps
    BY DEF CalmStep, Steps
  <1>2. \A s \in Seq(CalmStep) : s \in Seq(PlainStep)
    BY <1>1, SeqMonotonic
  <1>3. QED
    BY <1>1, <1>2, PlainIsStep, EmptySeq

\* What is put before a sequence that is empty or not.
LEMMA HeadOfJoined ==
  ASSUME NEW p \in Seq(Steps), NEW q \in Seq(Steps)
  PROVE  /\ p = <<>> => p \o q = q
         /\ p # <<>> => /\ p \o q # <<>> /\ Head(p \o q) = Head(p) /\ Head(p) \in Steps
                        /\ Tail(p) \in Seq(Steps) /\ Tail(p \o q) = Tail(p) \o q
  <1>1. CASE p = <<>>
    BY <1>1, ConcatEmptySeq
  <1>2. CASE p # <<>>
    <2>1. Head(p) \in Steps /\ Tail(p) \in Seq(Steps) /\ p = << Head(p) >> \o Tail(p)
      BY <1>2, HeadTailProperties, HeadRestored
    <2>2. << Head(p) >> \in Seq(Steps)
      BY <2>1
    <2>3. p \o q = << Head(p) >> \o (Tail(p) \o q)
      BY <2>1, <2>2, ConcatAssociative
    <2>4. Tail(p) \o q \in Seq(Steps)
      BY <2>1, ConcatProperties
    <2>5. Head(p \o q) = Head(p) /\ Tail(p \o q) = Tail(p) \o q /\ p \o q # <<>>
      BY <2>1, <2>3, <2>4, HeadAndRest
    <2>6. QED
      BY <1>2, <2>1, <2>5
  <1>3. QED
    BY <1>1, <1>2

LEMMA DrivesType ==
  ASSUME NEW s, NEW d \in Seq(PlainStep), NEW r \in Rests, Drives(s, d, r)
  PROVE  s \in Seq(Steps)
  <1>1. PICK f, g \in Seq(CalmStep) : s = f \o (d \o (g \o r))
    BY DEF Drives
  <1>2. f \in Seq(Steps) /\ g \in Seq(Steps) /\ d \in Seq(Steps) /\ r \in Seq(Steps)
    BY CalmIsPlain, PlainIsStep DEF Rests
  <1> DEFINE u == g \o r
             v == d \o u
  <1>3. u \in Seq(Steps)
    BY <1>2, Joined
  <1>4. v \in Seq(Steps)
    <2> HIDE DEF u
    <2>1. QED
      BY <1>2, <1>3, Joined
  <1>5. f \o v \in Seq(Steps)
    <2> HIDE DEF v
    <2>1. QED
      BY <1>2, <1>4, Joined
  <1>6. QED
    BY <1>1, <1>5

LEMMA DrivesLater ==
  ASSUME NEW s, NEW d \in Seq(PlainStep), NEW r \in Rests, Drives(s, d, r), NEW e \in Seq(CalmStep)
  PROVE  Drives(e \o s, d, r)
  <1>1. PICK f, g \in Seq(CalmStep) : s = f \o (d \o (g \o r))
    BY DEF Drives
  <1> DEFINE v == d \o (g \o r)
  <1>2. e \in Seq(Steps) /\ f \in Seq(Steps) /\ e \o f \in Seq(CalmStep)
    BY CalmIsPlain, ConcatProperties
  <1>3. v \in Seq(Steps)
    <2> DEFINE u == g \o r
    <2>1. u \in Seq(Steps) /\ d \in Seq(Steps)
      BY CalmIsPlain, PlainIsStep, Joined DEF Rests
    <2> HIDE DEF u
    <2>2. d \o u \in Seq(Steps)
      BY <2>1, Joined
    <2>3. QED
      BY <2>2 DEF u
  <1>4. (e \o f) \o v = e \o (f \o v)
    <2> HIDE DEF v
    <2>1. QED
      BY <1>2, <1>3, Joined
  <1>5. e \o s = (e \o f) \o (d \o (g \o r))
    BY <1>1, <1>4
  <1> HIDE DEF v
  <1>6. QED
    BY <1>2, <1>5 DEF Drives

\* The head of what a task has to do is calm, or the first of its steps on the
\* driver, or its next control step.
LEMMA DrivesNext ==
  ASSUME NEW s, s # <<>>, NEW d \in Seq(PlainStep), NEW r \in Rests, Drives(s, d, r)
  PROVE  \/ Head(s) \in CalmStep /\ \A e \in Seq(CalmStep) : Drives(e \o Tail(s), d, r)
         \/ /\ d # <<>> /\ Head(s) = Head(d)
            /\ \A e \in Seq(PlainStep) : Drives(e \o Tail(s), e \o Tail(d), r)
         \/ d = <<>> /\ s = r /\ Head(s) \in ControlStep
  <1>1. PICK f, g \in Seq(CalmStep) : s = f \o (d \o (g \o r))
    BY DEF Drives
  <1> DEFINE u == g \o r
             v == d \o u
  <1>2. f \in Seq(Steps) /\ g \in Seq(Steps) /\ d \in Seq(Steps) /\ r \in Seq(Steps)
    BY CalmIsPlain, PlainIsStep DEF Rests
  <1>3. u \in Seq(Steps)
    BY <1>2, Joined
  <1>4. v \in Seq(Steps)
    <2> HIDE DEF u
    <2>1. QED
      BY <1>2, <1>3, Joined
  <1>5. s = f \o v
    BY <1>1
  <1>6. CASE f # <<>>
    <2>1. Head(f) \in CalmStep /\ Tail(f) \in Seq(CalmStep)
      BY <1>6, HeadTailProperties
    <2>2. Head(s) = Head(f) /\ Tail(s) = Tail(f) \o v
      <3> HIDE DEF v
      <3>1. QED
        BY <1>2, <1>4, <1>5, <1>6, HeadOfJoined
    <2>3. Drives(Tail(s), d, r)
      BY <2>1, <2>2 DEF Drives
    <2>4. QED
      BY <2>1, <2>2, <2>3, DrivesLater
  <1>7. CASE f = <<>> /\ d # <<>>
    <2>1. s = v
      <3> HIDE DEF v
      <3>1. QED
        BY <1>4, <1>5, <1>7, ConcatEmptySeq
    <2>2. Head(s) = Head(d) /\ Tail(s) = Tail(d) \o u /\ Tail(d) \in Seq(Steps)
      <3> HIDE DEF u
      <3>1. QED
        BY <1>2, <1>3, <1>7, <2>1, HeadOfJoined
    <2>3. ASSUME NEW e \in Seq(PlainStep) PROVE Drives(e \o Tail(s), e \o Tail(d), r)
      <3> DEFINE a == e \o Tail(d)
      <3>1. e \in Seq(Steps)
        BY PlainIsStep
      <3>2. e \o (Tail(d) \o u) = a \o u
        <4> HIDE DEF u
        <4>1. QED
          BY <1>3, <2>2, <3>1, Joined
      <3>3. a \in Seq(Steps)
        BY <2>2, <3>1, Joined
      <3>4. a \o u \in Seq(Steps)
        <4> HIDE DEF a, u
        <4>1. QED
          BY <1>3, <3>3, Joined
      <3>5. e \o Tail(s) = a \o u
        BY <2>2, <3>2
      <3>6. e \o Tail(s) = <<>> \o (a \o (g \o r))
        <4> DEFINE w == a \o u
        <4> HIDE DEF w
        <4>1. w \in Seq(Steps) /\ e \o Tail(s) = w
          BY <3>4, <3>5 DEF w
        <4>2. e \o Tail(s) = <<>> \o w
          BY <4>1, ConcatEmptySeq
        <4>3. QED
          BY <4>2 DEF w
      <3>7. <<>> \in Seq(CalmStep)
        BY CalmIsPlain
      <3> HIDE DEF a
      <3>8. Drives(e \o Tail(s), a, r)
        BY <3>6, <3>7 DEF Drives
      <3>9. QED
        BY <3>8 DEF a
    <2>4. QED
      BY <1>7, <2>2, <2>3
  <1>8. CASE f = <<>> /\ d = <<>>
    <2>1. s = u
      <3>1. v = u
        <4> HIDE DEF u
        <4>1. QED
          BY <1>3, <1>8, ConcatEmptySeq
      <3>2. f \o v = v
        <4> HIDE DEF v
        <4>1. QED
          BY <1>4, <1>8, ConcatEmptySeq
      <3>3. QED
        BY <1>5, <3>1, <3>2
    <2>2. CASE g = <<>>
      <3>1. s = r
        BY <1>2, <2>1, <2>2, ConcatEmptySeq
      <3>2. QED
        BY <1>8, <3>1 DEF Rests
    <2>3. CASE g # <<>>
      <3>1. Head(g) \in CalmStep /\ Tail(g) \in Seq(CalmStep) /\ Tail(g) \in Seq(Steps)
        BY <2>3, HeadTailProperties, CalmIsPlain
      <3>2. Head(s) = Head(g) /\ Tail(s) = Tail(g) \o r
        BY <1>2, <2>1, <2>3, HeadOfJoined
      <3> DEFINE w == Tail(g) \o r
      <3>3. w \in Seq(Steps)
        BY <1>2, <3>1, Joined
      <3>4. Tail(s) = <<>> \o (<<>> \o (Tail(g) \o r))
        <4> HIDE DEF w
        <4>1. w = <<>> \o (<<>> \o w)
          BY <3>3, ConcatEmptySeq
        <4>2. QED
          BY <3>2, <4>1 DEF w
      <3>5. Drives(Tail(s), d, r)
        BY <1>8, <3>1, <3>4, CalmIsPlain DEF Drives
      <3>6. QED
        BY <3>1, <3>2, <3>5, DrivesLater
    <2>4. QED
      BY <2>2, <2>3
  <1>9. QED
    BY <1>6, <1>7, <1>8

\* The next control step of a task, and what follows it, are there once.
LEMMA SameRest ==
  ASSUME NEW p \in Seq(PlainStep), NEW f \in Seq(PlainStep), NEW q \in Rests, NEW r \in Rests,
         p \o q = f \o r
  PROVE  q = r
  <1>0. \A h \in PlainStep : h \notin ControlStep
    BY StepOps DEF Steps
  <1>1. ASSUME NEW a \in Seq(PlainStep), NEW b \in Seq(PlainStep), NEW u \in Rests, NEW v \in Rests,
               a \o u = b \o v, Len(a) < Len(b)
        PROVE  FALSE
    <2>1. /\ a \in Seq(Steps) /\ b \in Seq(Steps) /\ u \in Seq(Steps) /\ v \in Seq(Steps)
          /\ Len(a) \in Nat /\ Len(b) \in Nat /\ Len(u) \in Nat /\ Len(v) \in Nat
      BY PlainIsStep, LenProperties DEF Rests
    <2>2. Len(a) + Len(u) = Len(b) + Len(v)
      BY <1>1, <2>1, ConcatProperties
    <2>3. u # <<>> /\ Len(u) >= 1
      BY <1>1, <2>1, <2>2, EmptySeq
    <2>4. u[1] \in ControlStep
      BY <2>3 DEF Rests
    <2> DEFINE i == Len(a) + 1
    <2>5. i \in 1 .. Len(a) + Len(u) /\ ~(i <= Len(a)) /\ i - Len(a) = 1 /\ i \in 1 .. Len(b)
          /\ i \in 1 .. Len(b) + Len(v)
      BY <1>1, <2>1, <2>3
    <2> HIDE DEF i
    <2>6. (a \o u)[i] = u[1]
      BY <2>1, <2>5, ConcatProperties
    <2>7. (b \o v)[i] = b[i] /\ b[i] \in PlainStep
      BY <2>1, <2>5, ConcatProperties, ElementOfSeq
    <2>8. QED
      BY <1>0, <1>1, <2>4, <2>6, <2>7
  <1>2. /\ p \in Seq(Steps) /\ f \in Seq(Steps) /\ q \in Seq(Steps) /\ r \in Seq(Steps)
        /\ Len(p) \in Nat /\ Len(f) \in Nat
    BY PlainIsStep, LenProperties DEF Rests
  <1>3. Len(p) = Len(f)
    <2>1. ~(Len(p) < Len(f)) /\ ~(Len(f) < Len(p))
      BY <1>1
    <2>2. QED
      BY <1>2, <2>1
  <1>4. p = f
    <2>1. \A i \in 1 .. Len(p) : (p \o q)[i] = p[i] /\ (f \o r)[i] = f[i]
      BY <1>2, <1>3, LenProperties, ConcatProperties
    <2>2. QED
      BY <1>2, <1>3, <2>1, SeqEqual
  <1>5. QED
    BY <1>2, <1>4, ConcatSimplifications

LEMMA ToGoRests ==
  ASSUME NEW a \in Places, NEW x \in Nexts
  PROVE  /\ ToGo(a, x) \in Rests
         /\ a = "none" => ToGo(a, x) = <<>>
         /\ a # "none" => ToGo(a, x) # <<>> /\ Head(ToGo(a, x)) = First1(a)
  <1>1. ToGo(a, x) \in Seq(Steps)
    BY ToGoType
  <1>2. CASE a = "none"
    BY <1>1, <1>2 DEF ToGo, Rests
  <1>3. CASE a # "none"
    <2>1. First1(a) \in ControlStep /\ First1(a) \in Steps /\ Rest1(a, x) \in Seq(Steps)
      BY <1>3, First1Type, RestType DEF Steps
    <2>2. ToGo(a, x) = << First1(a) >> \o Rest1(a, x)
      BY <1>3, Unfold
    <2>3. ToGo(a, x) # <<>> /\ Head(ToGo(a, x)) = First1(a)
      BY <2>1, <2>2, HeadAndRest
    <2>4. QED
      BY <1>1, <1>3, <2>1, <2>3 DEF Rests
  <1>4. QED
    BY <1>2, <1>3

\* What follows the steps of a task on the driver is what is to go at its place.
LEMMA Placing ==
  ASSUME NEW s, NEW a \in Places, NEW x \in Nexts, Leads(s, ToGo(a, x)),
         NEW d \in Seq(PlainStep), NEW r \in Rests, Drives(s, d, r)
  PROVE  r = ToGo(a, x)
  <1>1. PICK p \in Seq(PlainStep) : s = p \o ToGo(a, x)
    BY DEF Leads
  <1>2. PICK f, g \in Seq(CalmStep) : s = f \o (d \o (g \o r))
    BY DEF Drives
  <1>3. /\ f \in Seq(Steps) /\ g \in Seq(Steps) /\ d \in Seq(Steps) /\ r \in Seq(Steps)
        /\ f \in Seq(PlainStep) /\ g \in Seq(PlainStep)
    BY CalmIsPlain, PlainIsStep DEF Rests
  <1>4. SameOf4(f, d, g, r)
    BY <1>3, Joined4
  <1> DEFINE w == (f \o d) \o g
  <1>5. w \in Seq(PlainStep)
    <2> DEFINE v == f \o d
    <2>1. v \in Seq(PlainStep)
      BY <1>3, ConcatProperties
    <2> HIDE DEF v
    <2>2. v \o g \in Seq(PlainStep)
      BY <1>3, <2>1, ConcatProperties
    <2>3. QED
      BY <2>2 DEF v
  <1>6. s = w \o r
    BY <1>2, <1>4, Zenon DEF SameOf4
  <1> HIDE DEF w
  <1>7. ToGo(a, x) \in Rests
    BY ToGoRests
  <1>8. QED
    BY <1>1, <1>5, <1>6, <1>7, SameRest

LEMMA StillAt ==
  ASSUME NEW p \in Seq(CalmStep), NEW r \in Rests
  PROVE  Drives(p \o r, <<>>, r) /\ Still(p \o r)
  <1>1. r \in Seq(Steps)
    BY DEF Rests
  <1>2. r = <<>> \o (<<>> \o r)
    BY <1>1, ConcatEmptySeq
  <1>3. p \o r = p \o (<<>> \o (<<>> \o r))
    BY <1>2
  <1>4. <<>> \in Seq(CalmStep)
    BY CalmIsPlain
  <1>5. Drives(p \o r, <<>>, r)
    BY <1>3, <1>4 DEF Drives
  <1>6. QED
    BY <1>5 DEF Still

LEMMA CalmSequences ==
  /\ <<>> \in Seq(CalmStep) /\ Speak \in Seq(CalmStep) /\ Say \in Seq(CalmStep)
  /\ Ended \in Seq(CalmStep) /\ Speak \o Ended \in Seq(CalmStep)
  /\ \A op \in {"clip", "recStop", "record", "write", "written"} :
        << Simple(op) >> \in Seq(CalmStep)
  /\ \A m \in Modes : << [op |-> "mode", m |-> m] >> \in Seq(CalmStep)
  <1>1. \A op \in {"clip", "recStop", "record", "write", "written", "ended"} :
           Simple(op) \in CalmStep
    BY PlainSteps DEF CalmStep, DriverOps, Simple
  <1>2. \A m \in Modes : [op |-> "mode", m |-> m] \in CalmStep
    BY PlainSteps DEF CalmStep, DriverOps
  <1>3. \A a \in BOOLEAN : [op |-> "speak", always |-> a] \in CalmStep
    BY PlainSteps DEF CalmStep, DriverOps
  <1>4. \A h \in CalmStep : << h >> \in Seq(CalmStep)
    OBVIOUS
  <1>5. Speak \in Seq(CalmStep) /\ Say \in Seq(CalmStep) /\ Ended \in Seq(CalmStep)
    BY <1>1, <1>3, <1>4, Zenon DEF Speak, Say, Ended
  <1>6. QED
    BY <1>1, <1>2, <1>4, <1>5, CalmIsPlain, ConcatProperties

\* Of the control steps, only getOutput of a conversation is followed by steps on
\* the driver.
LEMMA RestStill ==
  ASSUME NEW a \in Places \ {"none", "take"}, NEW x \in Nexts
  PROVE  Still(Rest1(a, x))
  <1>1. After(a, x) \in Places
    BY GoesOn
  <1>2. \A b \in Places : ToGo(b, x) \in Rests /\ Still(ToGo(b, x))
    <2> SUFFICES ASSUME NEW b \in Places PROVE ToGo(b, x) \in Rests /\ Still(ToGo(b, x))
      OBVIOUS
    <2> DEFINE r == ToGo(b, x)
    <2>1. r \in Rests
      BY ToGoRests
    <2> HIDE DEF r
    <2>2. Still(<<>> \o r) /\ r \in Seq(Steps)
      BY <2>1, CalmIsPlain, StillAt DEF Rests
    <2>3. Still(r)
      BY <2>2, ConcatEmptySeq
    <2>4. QED
      BY <2>1, <2>3 DEF r
  <1>3. CASE a \in {"pause", "open", "resume", "regain", "return", "hush", "close", "refuse",
                    "failFirst", "failLast", "downFirst", "downLast"}
    <2>1. Rest1(a, x) = ToGo(After(a, x), x)
      BY <1>3 DEF Rest1, After
    <2>2. QED
      BY <1>1, <1>2, <2>1
  <1>4. CASE a \in {"parting", "parted"}
    <2>1. Rest1(a, x) = Say \o ToGo(After(a, x), x)
      BY <1>4 DEF Rest1, After
    <2>2. Still(Say \o ToGo(After(a, x), x))
      BY <1>1, <1>2, CalmSequences, StillAt
    <2>3. QED
      BY <2>1, <2>2
  <1>5. CASE a = "off"
    <2>1. Rest1(a, x) = x
      BY <1>5 DEF Rest1
    <2>2. x = ToGo("none", x) \/ x = ToGo("pause", x)
      BY NextSteps DEF ToGo
    <2>3. "none" \in Places /\ "pause" \in Places
      BY DEF Places, Talking
    <2>4. QED
      BY <1>2, <2>1, <2>2, <2>3
  <1>6. CASE a \in {"opened", "closed", "refused", "bring", "on", "notOn", "lend", "lent"}
    <2>1. Rest1(a, x) \in {<<>>, Say, Speak \o <<>>, Speak \o Ended}
      BY <1>6 DEF Rest1
    <2>2. Rest1(a, x) \in Seq(CalmStep)
      BY <2>1, CalmSequences, ConcatEmptySeq
    <2>3. <<>> \in Rests
      BY EmptySeq DEF Rests
    <2>4. Still(Rest1(a, x) \o <<>>)
      BY <2>2, <2>3, StillAt
    <2>5. QED
      BY <2>2, <2>4, ConcatEmptySeq
  <1>7. QED
    BY <1>3, <1>4, <1>5, <1>6 DEF Places, Talking, Refusing, Starting, Stopping, Lending

\* The steps that take the driver down and set it up again.
Uninstalling(c, m) == << Simple("uninstall") >> \o Install(c, m)

LEMMA ReconfigureDrives ==
  ASSUME NEW c \in Configs, NEW m \in Modes, NEW f \in Seq(CalmStep), NEW h \in Seq(CalmStep),
         NEW r \in Rests
  PROVE  Drives(f \o (Reconfigure(c, m) \o (h \o r)), Uninstalling(c, m), r)
  <1> DEFINE w == Uninstalling(c, m)
             e == << [op |-> "mode", m |-> m] >>
             v == h \o r
             g == e \o h
  <1>1. e \in Seq(CalmStep)
    BY CalmSequences
  <1>2. w \in Seq(PlainStep)
    <2>1. << Simple("uninstall") >> \in Seq(PlainStep)
      BY PlainSteps
    <2>2. QED
      BY <2>1, PlainSequences, ConcatProperties DEF Uninstalling
  <1>3. Reconfigure(c, m) = w \o e
    BY DEF Reconfigure, Uninstalling
  <1> HIDE DEF w, e
  <1>4. e \in Seq(Steps) /\ h \in Seq(Steps) /\ r \in Seq(Steps) /\ w \in Seq(Steps)
    BY <1>1, <1>2, CalmIsPlain, PlainIsStep DEF Rests
  <1>5. v \in Seq(Steps) /\ g \in Seq(CalmStep) /\ e \o v = g \o r
    BY <1>1, <1>4, Joined, ConcatProperties
  <1>6. (w \o e) \o v = w \o (e \o v)
    <2> HIDE DEF v
    <2>1. QED
      BY <1>4, <1>5, Joined
  <1>7. Reconfigure(c, m) \o (h \o r) = w \o (g \o r)
    BY <1>3, <1>5, <1>6
  <1> HIDE DEF v, g
  <1>8. f \o (Reconfigure(c, m) \o (h \o r)) = f \o (w \o (g \o r))
    BY <1>7
  <1>9. Drives(f \o (Reconfigure(c, m) \o (h \o r)), w, r)
    BY <1>5, <1>8 DEF Drives
  <1>10. QED
    BY <1>9 DEF w

LEMMA TakeDrives ==
  ASSUME NEW x \in Nexts
  PROVE  \E c \in {Voice, Bad} :
            Drives(Rest1("take", x), Uninstalling(c, "I2S_ADC"), ToGo("open", x))
  <1>1. PICK c \in {Voice, Bad} : Setting(x) = Reconfigure(c, "I2S_ADC") \o << Simple("record") >>
    BY DEF Setting
  <1> DEFINE r == ToGo("open", x)
             h == << Simple("record") >>
             conf == Reconfigure(c, "I2S_ADC")
  <1>2. /\ c \in Configs /\ "I2S_ADC" \in Modes /\ h \in Seq(CalmStep) /\ <<>> \in Seq(CalmStep)
        /\ r \in Rests
    BY CalmSequences, ToGoRests DEF Configs, Modes, Places, Talking
  <1>3. Rest1("take", x) = (conf \o h) \o r
    BY <1>1 DEF Rest1
  <1>4. conf \in Seq(Steps) /\ h \in Seq(Steps) /\ r \in Seq(Steps)
    <2>1. conf \in Seq(PlainStep)
      BY <1>2, PlainSequences
    <2>2. QED
      BY <1>2, <2>1, PlainIsStep, CalmIsPlain DEF Rests
  <1>5. Drives(<<>> \o (conf \o (h \o r)), Uninstalling(c, "I2S_ADC"), r)
    BY <1>2, ReconfigureDrives
  <1> HIDE DEF r, h, conf
  <1>6. (conf \o h) \o r = conf \o (h \o r) /\ conf \o (h \o r) \in Seq(Steps)
    <2> DEFINE v == h \o r
    <2>1. v \in Seq(Steps)
      BY <1>4, Joined
    <2>2. conf \o v \in Seq(Steps)
      <3> HIDE DEF v
      <3>1. QED
        BY <1>4, <2>1, Joined
    <2>3. QED
      BY <1>4, <2>2, Joined
  <1>7. <<>> \o (conf \o (h \o r)) = (conf \o h) \o r
    <2> DEFINE w == conf \o (h \o r)
    <2> HIDE DEF w
    <2>1. w \in Seq(Steps) /\ w = (conf \o h) \o r
      BY <1>6 DEF w
    <2>2. <<>> \o w = w
      BY <2>1, ConcatEmptySeq
    <2>3. QED
      BY <2>1, <2>2 DEF w
  <1>8. QED
    BY <1>3, <1>5, <1>7 DEF r

-----------------------------------------------------------------------------
(* What the driver is, and whose.                                            *)

Inner == {"I2S_DAC", "I2S_ADC"}
PinsStep(m) == [op |-> "pins", m |-> m]
PortStep(m, ok) == [op |-> "port", m |-> m, ok |-> ok]

(* The driver is installed or not; or it is taken down. *)
Ready == ~icfg.exit /\ (ports["port0"] <=> dac # None)
Gone  == ~icfg.exit /\ dac = None

(* The steps d are still to be done on the driver, which then has the configuration c. *)
Working(d, c) ==
  \/ d = <<>> /\ Ready /\ (c = Speech => dac = Speech)
  \/ \E m \in Inner, n \in Modes :
       \/ d = Uninstalling(c, m) /\ Ready
       \/ d = << PinsStep(n) >> \o Install(c, m) /\ icfg.exit
       \/ d = << PortStep(n, TRUE) >> \o Install(c, m) /\ icfg.exit /\ dac = None
       \/ d = Install(c, m) /\ Gone
       \/ d = << PinsStep(m) >> /\ Gone /\ icfg.c = c /\ icfg.internal
       \/ d = << PortStep(m, dac # None) >> /\ ~icfg.exit /\ (c = Speech => dac = Speech)

(* One task at a time works on the driver: the play task for its first clip, or one  *)
(* that goes on with a conversation, with music, or to give the output back.         *)
Followers == {Sets("active", TRUE), Sets("run", TRUE), Simple("started")}

Fronts(t, d, r) ==
  /\ t \in Tasks /\ d \in Seq(PlainStep) /\ r \in Rests
  /\ Drives(todo[t], d, r) /\ \A u \in Tasks \ {t} : Still(todo[u])
  /\ d # <<>> => /\ Head(d).op \in DriverOps
                 /\ IF t = "play" THEN r = <<>> ELSE r # <<>> /\ Head(r) \in Followers

(* Until the play task has the driver for its first clip, nobody has taken the output *)
(* or is about to.  Then whenever the engine runs, or is to be resumed, the driver    *)
(* has the engine's configuration, or is getting it.                                  *)
Returning == \E u \in Tasks : Sets("run", TRUE) \in Range(todo[u])

Unpausing == \A u \in Tasks : \A h \in Range(todo[u]) : h.op # "run"

Claims(d, c) ==
  /\ prevMode \in {None, "I2S_DAC"} /\ (prevMode = None => d = <<>> /\ dac = None)
  /\ NotYetPlayed => run /\ Unpausing
  /\ prevMode # None /\ (run \/ Returning) => c = Speech

Driven(t, d, r, c) ==
  /\ Fronts(t, d, r) /\ c \in Configs /\ Claims(d, c)
  /\ tx = None /\ ~ports["port1"] /\ Working(d, c)

Sounding == valid => \E t, d, r, c : Driven(t, d, r, c)

LEMMA StillType == ASSUME NEW s, Still(s) PROVE s \in Seq(Steps)
  <1>1. PICK r \in Rests : Drives(s, <<>>, r)
    BY DEF Still
  <1>2. QED
    BY <1>1, PlainSequences, DrivesType

LEMMA StillNext ==
  ASSUME NEW s, s # <<>>, Still(s)
  PROVE  \/ Head(s) \in CalmStep /\ \A e \in Seq(CalmStep) : Still(e \o Tail(s))
         \/ Head(s) \in ControlStep
  <1>1. PICK r \in Rests : Drives(s, <<>>, r)
    BY DEF Still
  <1>2. \/ Head(s) \in CalmStep /\ \A e \in Seq(CalmStep) : Drives(e \o Tail(s), <<>>, r)
        \/ Head(s) \in ControlStep
    BY <1>1, PlainSequences, DrivesNext
  <1>3. QED
    BY <1>1, <1>2 DEF Still

LEMMA TodoType ==
  ASSUME NEW t, NEW d, NEW r, Fronts(t, d, r)
  PROVE  \A u \in Tasks : todo[u] \in Seq(Steps)
  BY StillType, DrivesType DEF Fronts

LEMMA StepSorts ==
  /\ \A h \in CalmStep : h \notin ControlStep /\ h.op \notin DriverOps /\ h.op # "run"
  /\ \A h \in ControlStep : h.op \notin DriverOps
  <1>1. \A h \in CalmStep : /\ h \in PlainStep /\ h \in Steps
                            /\ h.op \in PlainOps /\ h.op \notin DriverOps
    BY StepOps DEF CalmStep, Steps
  <1>2. \A h \in ControlStep : h \in Steps /\ h.op \in ControlOps
    BY StepOps DEF Steps
  <1>3. PlainOps \cap ControlOps = {} /\ DriverOps \subseteq PlainOps /\ "run" \in ControlOps
    BY DEF PlainOps, ControlOps, DriverOps
  <1>4. QED
    BY <1>1, <1>2, <1>3

\* A calm step, of any task.
LEMMA FrontsCalm ==
  ASSUME NEW t, NEW d, NEW r, Fronts(t, d, r), DOMAIN todo = Tasks, NEW u \in Tasks, Busy(u),
         Head(todo[u]) \in CalmStep, NEW e \in Seq(CalmStep),
         todo' = [todo EXCEPT ![u] = e \o Tail(@)]
  PROVE  Fronts(t, d, r)'
  <1>1. Head(todo[u]) \notin ControlStep /\ Head(todo[u]).op \notin DriverOps
    BY StepSorts
  <1>2. \A v \in Tasks : todo'[v] = IF v = u THEN e \o Tail(todo[u]) ELSE todo[v]
    OBVIOUS
  <1>3. todo[u] # <<>>
    BY DEF Busy
  <1>4. CASE u = t
    <2>1. \/ Head(todo[t]) \in CalmStep /\ \A f \in Seq(CalmStep) : Drives(f \o Tail(todo[t]), d, r)
          \/ d # <<>> /\ Head(todo[t]) = Head(d)
          \/ Head(todo[t]) \in ControlStep
      BY <1>3, <1>4, DrivesNext DEF Fronts
    <2>2. ~(d # <<>> /\ Head(todo[t]) = Head(d))
      BY <1>1, <1>4 DEF Fronts
    <2>3. Drives(e \o Tail(todo[t]), d, r)
      BY <1>1, <1>4, <2>1, <2>2
    <2>4. QED
      BY <1>2, <1>4, <2>3 DEF Fronts
  <1>5. CASE u # t
    <2>1. Still(todo[u]) /\ t \in Tasks
      BY <1>5 DEF Fronts
    <2>2. Still(e \o Tail(todo[u]))
      BY <1>1, <1>3, <2>1, StillNext
    <2>3. todo'[t] = todo[t] /\ \A v \in Tasks \ {t} : Still(todo'[v])
      BY <1>2, <1>5, <2>1, <2>2 DEF Fronts
    <2>4. QED
      BY <2>3 DEF Fronts
  <1>6. QED
    BY <1>4, <1>5

\* A task that has nothing to do, or is at a control step, does not work on the driver.
LEMMA NotWorking ==
  ASSUME NEW t, NEW d, NEW r, Fronts(t, d, r), ~Busy(t) \/ Head(todo[t]) \in ControlStep
  PROVE  d = <<>>
  <1>1. CASE todo[t] # <<>>
    <2>1. \/ Head(todo[t]) \in CalmStep
          \/ d # <<>> /\ Head(todo[t]) = Head(d)
          \/ d = <<>>
      BY <1>1, DrivesNext DEF Fronts
    <2>2. Head(todo[t]) \in ControlStep
      BY <1>1 DEF Busy
    <2>3. Head(todo[t]) \notin CalmStep /\ Head(todo[t]).op \notin DriverOps
      BY <2>2, StepSorts
    <2>4. QED
      BY <2>1, <2>3 DEF Fronts
  <1>2. CASE todo[t] = <<>>
    <2>1. PICK f, g \in Seq(CalmStep) : <<>> = f \o (d \o (g \o r))
      BY <1>2 DEF Fronts, Drives
    <2>2. f \in Seq(Steps) /\ g \in Seq(Steps) /\ d \in Seq(Steps) /\ r \in Seq(Steps)
      BY CalmIsPlain, PlainIsStep DEF Fronts, Rests
    <2> DEFINE w == g \o r
               v == d \o w
    <2>3. w \in Seq(Steps)
      BY <2>2, Joined
    <2>4. v \in Seq(Steps)
      <3> HIDE DEF w
      <3>1. QED
        BY <2>2, <2>3, Joined
    <2>5. v = <<>>
      <3> HIDE DEF v
      <3>1. f \o v = <<>>
        BY <2>1 DEF v
      <3>2. QED
        BY <2>2, <2>4, <3>1, ConcatEqualIffEmpty
    <2>6. d = <<>>
      <3> HIDE DEF w
      <3>1. QED
        BY <2>2, <2>3, <2>5, ConcatEqualIffEmpty
    <2>7. QED
      BY <2>6
  <1>3. QED
    BY <1>1, <1>2

LEMMA FrontsMove ==
  ASSUME NEW t, NEW d, NEW r, Fronts(t, d, r), DOMAIN todo = Tasks, NEW u \in Tasks,
         ~Busy(u) \/ Head(todo[u]) \in ControlStep, NEW s, Still(s),
         todo' = [todo EXCEPT ![u] = s]
  PROVE  \E q : Fronts(t, d, q)'
  <1>1. \A v \in Tasks : todo'[v] = IF v = u THEN s ELSE todo[v]
    OBVIOUS
  <1>2. CASE u = t
    <2>1. d = <<>>
      BY <1>2, NotWorking
    <2>2. PICK q \in Rests : Drives(s, <<>>, q)
      BY DEF Still
    <2>3. \A v \in Tasks \ {t} : todo'[v] = todo[v]
      BY <1>1, <1>2
    <2>4. Fronts(t, d, q)'
      BY <1>1, <1>2, <2>1, <2>2, <2>3 DEF Fronts
    <2>5. QED
      BY <2>4
  <1>3. CASE u # t
    <2>1. \A v \in Tasks \ {t} : Still(todo'[v])
      BY <1>1, <1>3 DEF Fronts
    <2>2. todo'[t] = todo[t]
      BY <1>1, <1>3 DEF Fronts
    <2>3. Fronts(t, d, r)'
      BY <2>1, <2>2 DEF Fronts
    <2>4. QED
      BY <2>3
  <1>4. QED
    BY <1>2, <1>3

\* Nobody works on the driver, and u begins to.
LEMMA FrontsBegin ==
  ASSUME NEW t, NEW r, Fronts(t, <<>>, r), DOMAIN todo = Tasks, NEW u \in Tasks,
         NEW d \in Seq(PlainStep), Head(d).op \in DriverOps, NEW s, NEW q \in Rests,
         Drives(s, d, q), IF u = "play" THEN q = <<>> ELSE q # <<>> /\ Head(q) \in Followers,
         todo' = [todo EXCEPT ![u] = s]
  PROVE  Fronts(u, d, q)'
  <1>1. \A v \in Tasks : todo'[v] = IF v = u THEN s ELSE todo[v]
    OBVIOUS
  <1>2. \A v \in Tasks : Still(todo[v])
    BY DEF Fronts, Still
  <1>3. \A v \in Tasks \ {u} : Still(todo'[v])
    BY <1>1, <1>2
  <1>4. QED
    BY <1>1, <1>3 DEF Fronts

\* A step on the driver is the next one of the task that works on it.
LEMMA FrontsTurn ==
  ASSUME NEW t, NEW d, NEW r, Fronts(t, d, r), NEW u \in Tasks, Busy(u),
         Head(todo[u]).op \in DriverOps
  PROVE  /\ u = t /\ d # <<>> /\ Head(todo[u]) = Head(d)
         /\ \A f \in Seq(PlainStep) : Drives(f \o Tail(todo[t]), f \o Tail(d), r)
  <1>1. Head(todo[u]) \notin CalmStep /\ Head(todo[u]) \notin ControlStep
    BY StepSorts
  <1>2. todo[u] # <<>>
    BY DEF Busy
  <1>3. u = t
    <2>1. ASSUME u # t PROVE FALSE
      <3>1. Still(todo[u])
        BY <2>1 DEF Fronts
      <3>2. QED
        BY <1>1, <1>2, <3>1, StillNext
    <2>2. QED
      BY <2>1
  <1>4. QED
    BY <1>1, <1>2, <1>3, DrivesNext DEF Fronts

LEMMA FrontsDriver ==
  ASSUME NEW t, NEW d, NEW r, Fronts(t, d, r), DOMAIN todo = Tasks, NEW u \in Tasks, Busy(u),
         Head(todo[u]).op \in DriverOps, NEW e \in Seq(PlainStep),
         todo' = [todo EXCEPT ![u] = e \o Tail(@)],
         e \o Tail(d) # <<>> => Head(e \o Tail(d)).op \in DriverOps
  PROVE  Fronts(t, e \o Tail(d), r)'
  <1>4. /\ u = t /\ d # <<>> /\ Head(todo[t]) = Head(d)
        /\ \A f \in Seq(PlainStep) : Drives(f \o Tail(todo[t]), f \o Tail(d), r)
    BY FrontsTurn
  <1> DEFINE w == e \o Tail(d)
  <1>5. w \in Seq(PlainStep)
    BY <1>4, HeadTailProperties, ConcatProperties DEF Fronts
  <1>6. todo'[t] = e \o Tail(todo[t]) /\ \A v \in Tasks \ {t} : todo'[v] = todo[v]
    BY <1>4
  <1>7. Drives(todo'[t], w, r) /\ (w # <<>> => Head(w).op \in DriverOps)
    BY <1>4, <1>6
  <1> HIDE DEF w
  <1>8. Fronts(t, w, r)'
    BY <1>4, <1>5, <1>6, <1>7 DEF Fronts
  <1>9. QED
    BY <1>8 DEF w

LEMMA RangeNext ==
  ASSUME NEW s \in Seq(Steps), s # <<>>, NEW e \in Seq(Steps)
  PROVE  Range(e \o Tail(s)) \subseteq Range(e) \cup Range(s) /\ Head(s) \in Range(s)
  <1>1. Head(s) \in Steps /\ Tail(s) \in Seq(Steps) /\ s = << Head(s) >> \o Tail(s)
    BY HeadTailProperties, HeadRestored
  <1>2. << Head(s) >> \in Seq(Steps)
    BY <1>1
  <1>3. Range(Tail(s)) \subseteq Range(s)
    <2>1. SUFFICES ASSUME NEW h \in Range(Tail(s)) PROVE h \in Range(s)
      OBVIOUS
    <2>2. PICK i \in DOMAIN Tail(s) : h = Tail(s)[i]
      BY DEF Range
    <2>3. i \in 1 .. Len(s) - 1 /\ i + 1 \in DOMAIN s /\ Tail(s)[i] = s[i + 1]
      BY <2>2, HeadTailProperties, LenProperties
    <2>4. QED
      BY <2>2, <2>3 DEF Range
  <1>4. Range(e \o Tail(s)) = Range(e) \cup Range(Tail(s))
    BY <1>1, RangeConcatenation
  <1>5. Head(s) \in Range(s)
    <2>1. 1 \in DOMAIN s /\ Head(s) = s[1]
      BY EmptySeq, LenProperties
    <2>2. QED
      BY <2>1 DEF Range
  <1>6. QED
    BY <1>3, <1>4, <1>5

LEMMA RangeOfOne == \A a : Range(<< a >>) = {a} /\ Range(<<>>) = {}
  BY DEF Range

\* What is claimed stays so while the new steps of a task do not resume the engine,
\* and do not pause it before the first clip.
LEMMA ClaimsKept ==
  ASSUME NEW d, NEW c, Claims(d, c), valid, DOMAIN todo = Tasks, NEW u \in Tasks, NEW s,
         todo' = [todo EXCEPT ![u] = s], UNCHANGED <<run, valid, prevMode>>,
         \A h \in Range(s) \ Range(todo[u]) :
            /\ h # Sets("run", TRUE) /\ (h.op = "run" => ~NotYetPlayed)
            /\ u = "play" => NotYetPlayed \/ h.op \in {"write", "written"},
         NEW e, prevMode = None => e = <<>> /\ dac' = None
  PROVE  Claims(e, c)'
  <1>1. "play" \in Tasks /\ \A v \in Tasks : todo'[v] = IF v = u THEN s ELSE todo[v]
    BY DEF Tasks
  <1>2. NotYetPlayed' => NotYetPlayed
    <2>1. SUFFICES ASSUME prevMode # None, NEW i \in DOMAIN todo'["play"],
                          todo'["play"][i].op \notin {"write", "written"}
                   PROVE  NotYetPlayed
      BY DEF NotYetPlayed
    <2>2. CASE u # "play"
      BY <1>1, <2>1, <2>2 DEF NotYetPlayed
    <2>3. CASE u = "play"
      <3>1. s[i] \in Range(s) /\ s[i].op \notin {"write", "written"}
        BY <1>1, <2>1, <2>3 DEF Range
      <3>2. CASE s[i] \in Range(todo[u])
        <4>1. PICK j \in DOMAIN todo["play"] : todo["play"][j] = s[i]
          BY <2>3, <3>2 DEF Range
        <4>2. QED
          BY <3>1, <4>1 DEF NotYetPlayed
      <3>3. CASE s[i] \notin Range(todo[u])
        BY <2>3, <3>1, <3>3
      <3>4. QED
        BY <3>2, <3>3
    <2>4. QED
      BY <2>2, <2>3
  <1>3. Returning' => Returning
    <2>1. SUFFICES ASSUME NEW v \in Tasks, Sets("run", TRUE) \in Range(todo'[v])
                   PROVE  Returning
      BY DEF Returning
    <2>2. CASE v = u
      <3>1. Sets("run", TRUE) \in Range(s)
        BY <1>1, <2>1, <2>2
      <3>2. Sets("run", TRUE) \in Range(todo[u])
        BY <3>1
      <3>3. QED
        BY <3>2 DEF Returning
    <2>3. CASE v # u
      BY <1>1, <2>1, <2>3 DEF Returning
    <2>4. QED
      BY <2>2, <2>3
  <1>4. ASSUME NotYetPlayed' PROVE run' /\ Unpausing'
    <2>1. NotYetPlayed /\ run /\ Unpausing
      BY <1>2, <1>4 DEF Claims
    <2>2. ASSUME NEW v \in Tasks, NEW h \in Range(todo'[v]) PROVE h.op # "run"
      BY <1>1, <2>1, <2>2 DEF Unpausing
    <2>3. QED
      BY <2>1, <2>2 DEF Unpausing
  <1>5. QED
    BY <1>3, <1>4 DEF Claims

-----------------------------------------------------------------------------
(* The steps on the driver.                                                  *)

LEMMA Jobs ==
  ASSUME NEW c \in Configs, NEW m \in Modes
  PROVE  /\ Install(c, m) \in Seq(PlainStep) /\ Install(c, m) # <<>>
         /\ Head(Install(c, m)) = [op |-> "setup", c |-> c, m |-> m]
         /\ Tail(Install(c, m)) = << PinsStep(m) >> /\ << PinsStep(m) >> \in Seq(PlainStep)
         /\ \A a \in PlainStep : /\ << a >> \o Install(c, m) \in Seq(PlainStep)
                                 /\ << a >> \o Install(c, m) # <<>>
                                 /\ Head(<< a >> \o Install(c, m)) = a
                                 /\ Tail(<< a >> \o Install(c, m)) = Install(c, m)
         /\ Simple("uninstall") \in PlainStep /\ PinsStep(m) \in PlainStep
         /\ \A ok \in BOOLEAN : PortStep(m, ok) \in PlainStep
         /\ \A a \in PlainStep : /\ << a >> \in Seq(PlainStep) /\ << a >> # <<>>
                                 /\ Head(<< a >>) = a /\ Tail(<< a >>) = <<>>
  <1>1. /\ [op |-> "setup", c |-> c, m |-> m] \in PlainStep /\ PinsStep(m) \in PlainStep
        /\ Simple("uninstall") \in PlainStep /\ \A ok \in BOOLEAN : PortStep(m, ok) \in PlainStep
    BY PlainSteps DEF PinsStep, PortStep
  <1>2. ASSUME NEW a \in PlainStep
        PROVE  /\ << a >> \in Seq(PlainStep) /\ << a >> # <<>>
               /\ Head(<< a >>) = a /\ Tail(<< a >>) = <<>>
    <2>1. << a >> \o <<>> = << a >>
      BY ConcatEmptySeq
    <2>2. <<>> \in Seq(PlainStep)
      BY PlainSequences
    <2>3. QED
      BY <2>1, <2>2, HeadAndRest
  <1>3. Install(c, m) = << [op |-> "setup", c |-> c, m |-> m] >> \o << PinsStep(m) >>
    BY TwoSteps DEF Install, PinsStep
  <1>4. /\ Install(c, m) \in Seq(PlainStep) /\ Install(c, m) # <<>>
        /\ Head(Install(c, m)) = [op |-> "setup", c |-> c, m |-> m]
        /\ Tail(Install(c, m)) = << PinsStep(m) >>
    <2> DEFINE a == [op |-> "setup", c |-> c, m |-> m]
               s == << PinsStep(m) >>
    <2>1. a \in PlainStep /\ s \in Seq(PlainStep) /\ Install(c, m) = << a >> \o s
      BY <1>1, <1>2, <1>3
    <2> HIDE DEF a, s
    <2>2. /\ Install(c, m) \in Seq(PlainStep) /\ Install(c, m) # <<>>
          /\ Head(Install(c, m)) = a /\ Tail(Install(c, m)) = s
      BY <2>1, HeadAndRest
    <2>3. QED
      BY <2>2 DEF a, s
  <1>5. \A a \in PlainStep : /\ << a >> \o Install(c, m) \in Seq(PlainStep)
                             /\ << a >> \o Install(c, m) # <<>>
                             /\ Head(<< a >> \o Install(c, m)) = a
                             /\ Tail(<< a >> \o Install(c, m)) = Install(c, m)
    BY <1>4, HeadAndRest
  <1>6. QED
    BY <1>1, <1>2, <1>4, <1>5

\* What is left to do on the driver, and its next step.
LEMMA WorkingNext ==
  ASSUME NEW d, NEW c \in Configs, Working(d, c), d # <<>>, TypeOK
  PROVE  \E m \in Inner, n \in Modes :
           \/ Head(d) = Simple("uninstall") /\ Tail(d) = Install(c, m) /\ Ready
           \/ Head(d) = PinsStep(n) /\ Tail(d) = Install(c, m) /\ icfg.exit
           \/ Head(d) = PortStep(n, TRUE) /\ Tail(d) = Install(c, m) /\ icfg.exit /\ dac = None
           \/ /\ Head(d) = [op |-> "setup", c |-> c, m |-> m] /\ Tail(d) = << PinsStep(m) >>
              /\ Gone
           \/ /\ Head(d) = PinsStep(m) /\ Tail(d) = <<>>
              /\ Gone /\ icfg.c = c /\ icfg.internal
           \/ /\ Head(d) = PortStep(m, dac # None) /\ Tail(d) = <<>>
              /\ ~icfg.exit /\ (c = Speech => dac = Speech)
  <1>1. PICK m \in Inner, n \in Modes :
          \/ d = Uninstalling(c, m) /\ Ready
          \/ d = << PinsStep(n) >> \o Install(c, m) /\ icfg.exit
          \/ d = << PortStep(n, TRUE) >> \o Install(c, m) /\ icfg.exit /\ dac = None
          \/ d = Install(c, m) /\ Gone
          \/ d = << PinsStep(m) >> /\ Gone /\ icfg.c = c /\ icfg.internal
          \/ d = << PortStep(m, dac # None) >> /\ ~icfg.exit /\ (c = Speech => dac = Speech)
    BY DEF Working
  <1>2. m \in Modes
    BY DEF Inner, Modes
  <1>3. /\ Simple("uninstall") \in PlainStep
        /\ PinsStep(n) \in PlainStep /\ PinsStep(m) \in PlainStep
        /\ PortStep(n, TRUE) \in PlainStep /\ PortStep(m, dac # None) \in PlainStep
    BY <1>2, Jobs
  <1>4. CASE d = Uninstalling(c, m) /\ Ready
    BY <1>2, <1>3, <1>4, Jobs DEF Uninstalling
  <1>5. CASE d = << PinsStep(n) >> \o Install(c, m) /\ icfg.exit
    BY <1>2, <1>3, <1>5, Jobs
  <1>6. CASE d = << PortStep(n, TRUE) >> \o Install(c, m) /\ icfg.exit /\ dac = None
    BY <1>2, <1>3, <1>6, Jobs
  <1>7. CASE d = Install(c, m) /\ Gone
    BY <1>2, <1>7, Jobs
  <1>8. CASE d = << PinsStep(m) >> /\ Gone /\ icfg.c = c /\ icfg.internal
    BY <1>2, <1>3, <1>8, Jobs
  <1>9. CASE d = << PortStep(m, dac # None) >> /\ ~icfg.exit /\ (c = Speech => dac = Speech)
    BY <1>2, <1>3, <1>9, Jobs
  <1>10. QED
    BY <1>1, <1>4, <1>5, <1>6, <1>7, <1>8, <1>9

LEMMA WorkingNothing ==
  ASSUME NEW d, NEW c, Working(d, c), c \in Configs, d = <<>>
  PROVE  Ready /\ (c = Speech => dac = Speech)
  <1>1. SUFFICES ASSUME NEW m \in Inner, NEW n \in Modes,
                        \/ d = Uninstalling(c, m)
                        \/ d = << PinsStep(n) >> \o Install(c, m)
                        \/ d = << PortStep(n, TRUE) >> \o Install(c, m)
                        \/ d = Install(c, m)
                        \/ d = << PinsStep(m) >>
                        \/ d = << PortStep(m, dac # None) >>
                 PROVE  FALSE
    BY DEF Working
  <1>2. m \in Modes
    BY DEF Inner, Modes
  <1>3. /\ Install(c, m) # <<>> /\ Uninstalling(c, m) # <<>>
        /\ << PinsStep(n) >> \o Install(c, m) # <<>>
        /\ << PortStep(n, TRUE) >> \o Install(c, m) # <<>>
    BY <1>2, Jobs DEF Uninstalling
  <1>4. QED
    BY <1>1, <1>3

-----------------------------------------------------------------------------
(* Who works on the driver, and who may begin to.                            *)

LEMMA RangeOfPlain ==
  ASSUME NEW s \in Seq(PlainStep)
  PROVE  Range(s) \subseteq PlainStep
  BY RangeOfSeq

\* What is to go at a place: its step, plain ones, and what is to go at the next place.
LEMMA RangeToGo ==
  ASSUME NEW a \in Places \ {"none"}, NEW x \in Nexts, NEW h \in Range(ToGo(a, x))
  PROVE  h = First1(a) \/ h \in PlainStep \/ h \in Range(ToGo(After(a, x), x))
  <1> DEFINE r == Rest1(a, x)
             n == ToGo(After(a, x), x)
  <1>1. /\ ToGo(a, x) = << First1(a) >> \o r /\ First1(a) \in Steps /\ r \in Seq(Steps)
        /\ After(a, x) \in Places /\ Leads(r, n) /\ n \in Seq(Steps)
    BY Unfold, First1Type, RestType, GoesOn, ToGoType DEF Steps
  <1> HIDE DEF r, n
  <1>2. PICK p \in Seq(PlainStep) : r = p \o n
    BY <1>1 DEF Leads
  <1>3. Range(r) = Range(p) \cup Range(n) /\ Range(p) \subseteq PlainStep
    BY <1>1, <1>2, PlainIsStep, RangeConcatenation, RangeOfPlain
  <1>4. PICK f \in Steps : f = First1(a)
    BY <1>1
  <1>5. Range(<< f >> \o r) = {f} \cup Range(r)
    <2>1. << f >> \in Seq(Steps)
      OBVIOUS
    <2>2. Range(<< f >>) = {f}
      BY DEF Range
    <2>3. \A s \in Seq(Steps) : Range(s \o r) = Range(s) \cup Range(r)
      BY <1>1, RangeConcatenation
    <2>4. QED
      BY <2>1, <2>2, <2>3
  <1>6. QED
    BY <1>1, <1>3, <1>4, <1>5 DEF n

\* The engine is to be resumed by who has it paused.
LEMMA ReturnPlaces ==
  ASSUME NEW a \in Places, NEW x \in Nexts, Sets("run", TRUE) \in Range(ToGo(a, x))
  PROVE  a \in {"resume", "regain", "return"}
  <1> DEFINE Silent(b) == Sets("run", TRUE) \notin Range(ToGo(b, x))
  <1>1. Sets("run", TRUE) \notin PlainStep
    BY ControlSteps, StepOps DEF Steps
  <1>2. \A b \in Places \ {"none"} :
           First1(b) = Sets("run", TRUE) => b \in {"resume", "regain", "return"}
    <2> SUFFICES ASSUME NEW b \in Places \ {"none"}, First1(b) = Sets("run", TRUE)
                 PROVE  b \in {"resume", "regain", "return"}
      OBVIOUS
    <2>1. First1(b).op = "run" /\ First1(b).v = TRUE
      BY DEF Sets
    <2>2. b \in {"pause", "resume", "regain", "return", "hush"}
      BY <2>1, StepsOfPlaces
    <2>3. b \in {"pause", "hush"} => First1(b).v = FALSE
      BY DEF First1, Sets
    <2>4. QED
      BY <2>1, <2>2, <2>3
  <1>3. ASSUME NEW b \in Places \ {"none", "resume", "regain", "return"}, Silent(After(b, x))
        PROVE  Silent(b)
    <2>1. PICK n : n = ToGo(After(b, x), x)
      OBVIOUS
    <2>2. Sets("run", TRUE) \in Range(ToGo(b, x)) =>
            \/ Sets("run", TRUE) = First1(b) \/ Sets("run", TRUE) \in PlainStep
            \/ Sets("run", TRUE) \in Range(ToGo(After(b, x), x))
      BY RangeToGo
    <2>3. QED
      BY <1>1, <1>2, <1>3, <2>2
  <1>4. Silent("none")
    BY RangeOfOne DEF ToGo
  <1> HIDE DEF Silent
  <1>5. Silent("lent") /\ Silent("opened") /\ Silent("closed") /\ Silent("refused")
        /\ Silent("bring") /\ Silent("on") /\ Silent("notOn") /\ Silent("lend")
    <2>1. \A b \in {"lent", "opened", "closed", "refused", "bring", "on", "notOn", "lend"} :
            /\ After(b, x) = "none"
            /\ b \in Places \ {"none", "resume", "regain", "return"}
      BY DEF After, Places, Talking, Refusing, Starting, Lending
    <2>2. QED
      BY <1>3, <1>4, <2>1
  <1>6. Silent("hush") /\ Silent("open") /\ Silent("close") /\ Silent("refuse")
        /\ Silent("failLast")
    <2>1. /\ After("hush", x) = "lend" /\ After("open", x) = "opened"
          /\ After("close", x) = "closed" /\ After("refuse", x) = "refused"
          /\ After("failLast", x) = "notOn"
          /\ {"hush", "open", "close", "refuse", "failLast"}
                \subseteq Places \ {"none", "resume", "regain", "return"}
      BY DEF After, Places, Talking, Refusing, Starting, Lending
    <2>2. QED
      BY <1>3, <1>5, <2>1
  <1>7. Silent("take") /\ Silent("failFirst")
    <2>1. /\ After("take", x) = "open" /\ After("failFirst", x) = "failLast"
          /\ {"take", "failFirst"} \subseteq Places \ {"none", "resume", "regain", "return"}
      BY DEF After, Places, Talking, Starting
    <2>2. QED
      BY <1>3, <1>6, <2>1
  <1>8. Silent("pause")
    <2>1. /\ After("pause", x) = "take"
          /\ "pause" \in Places \ {"none", "resume", "regain", "return"}
      BY DEF After, Places, Talking
    <2>2. QED
      BY <1>3, <1>7, <2>1
  <1>9. Silent("off")
    <2>1. /\ After("off", x) \in {"pause", "none"}
          /\ "off" \in Places \ {"none", "resume", "regain", "return"}
      BY DEF After, Places, Stopping
    <2>2. QED
      BY <1>3, <1>4, <1>8, <2>1
  <1>10. Silent("parted") /\ Silent("parting")
    <2>1. /\ After("parted", x) = "off" /\ After("parting", x) = "off"
          /\ {"parted", "parting"} \subseteq Places \ {"none", "resume", "regain", "return"}
      BY DEF After, Places, Stopping
    <2>2. QED
      BY <1>3, <1>9, <2>1
  <1>11. Silent("downLast")
    <2>1. /\ After("downLast", x) = "parting"
          /\ "downLast" \in Places \ {"none", "resume", "regain", "return"}
      BY DEF After, Places, Stopping
    <2>2. QED
      BY <1>3, <1>10, <2>1
  <1>12. Silent("downFirst")
    <2>1. /\ After("downFirst", x) = "downLast"
          /\ "downFirst" \in Places \ {"none", "resume", "regain", "return"}
      BY DEF After, Places, Stopping
    <2>2. QED
      BY <1>3, <1>11, <2>1
  <1>13. ~Silent(a)
    BY DEF Silent
  <1>14. QED
    BY <1>4, <1>5, <1>6, <1>7, <1>8, <1>9, <1>10, <1>11, <1>12, <1>13
    DEF Places, Talking, Refusing, Starting, Stopping, Lending

LEMMA ReturnsAt ==
  ASSUME NEW at, NEW x, Kept(at, x), Returning
  PROVE  \E u \in Tasks : at[u] \in {"resume", "regain", "return"}
  <1>1. PICK u \in Tasks : Sets("run", TRUE) \in Range(todo[u])
    BY DEF Returning
  <1>2. at[u] \in Places /\ x \in Nexts /\ Leads(todo[u], ToGo(at[u], x))
    BY DEF Kept, Ordered, Placed
  <1> DEFINE n == ToGo(at[u], x)
  <1>3. n \in Seq(Steps)
    BY <1>2, ToGoType
  <1> HIDE DEF n
  <1>4. PICK p \in Seq(PlainStep) : todo[u] = p \o n
    BY <1>2 DEF Leads, n
  <1>5. Range(todo[u]) = Range(p) \cup Range(n) /\ Range(p) \subseteq PlainStep
    BY <1>3, <1>4, PlainIsStep, RangeConcatenation, RangeOfPlain
  <1>6. Sets("run", TRUE) \notin PlainStep
    BY ControlSteps, StepOps DEF Steps
  <1>7. Sets("run", TRUE) \in Range(ToGo(at[u], x))
    BY <1>1, <1>5, <1>6 DEF n
  <1>8. QED
    BY <1>2, <1>7, ReturnPlaces

\* Who works on the driver is where it goes on with what it has the driver for.
LEMMA DriversAt ==
  ASSUME NEW at, NEW x, Kept(at, x), NEW t, NEW d, NEW r, Fronts(t, d, r), d # <<>>,
         t # "play"
  PROVE  at[t] \in {"open", "resume", "regain", "return", "lent"}
  <1>1. at[t] \in Places /\ x \in Nexts /\ Leads(todo[t], ToGo(at[t], x))
    BY DEF Kept, Ordered, Placed, Fronts
  <1>2. r = ToGo(at[t], x) /\ r # <<>> /\ Head(r) \in Followers
    BY <1>1, Placing DEF Fronts
  <1>3. at[t] # "none" /\ Head(r) = First1(at[t])
    BY <1>1, <1>2, ToGoRests
  <1>4. First1(at[t]).op \in {"active", "run", "started"}
    BY <1>2, <1>3 DEF Followers, Sets, Simple
  <1>5. First1(at[t]).op \in {"active", "run"} => First1(at[t]).v = TRUE
    BY <1>2, <1>3 DEF Followers, Sets, Simple
  <1>6. at[t] \in {"open", "close", "refuse", "pause", "resume", "regain", "return", "hush", "lent"}
    BY <1>1, <1>3, <1>4, StepsOfPlaces
  <1>7. at[t] \in {"close", "refuse", "pause", "hush"} =>
          First1(at[t]).op \in {"active", "run"} /\ First1(at[t]).v = FALSE
    BY DEF First1, Sets
  <1>8. QED
    BY <1>5, <1>6, <1>7

\* The play task works on the driver for its first clip.
LEMMA PlayDrives ==
  ASSUME NEW t, NEW d, NEW r, Fronts(t, d, r), d # <<>>, t = "play", valid
  PROVE  NotYetPlayed
  <1>1. todo[t] # <<>>
    <2>1. ASSUME todo[t] = <<>> PROVE FALSE
      BY <2>1, NotWorking DEF Busy
    <2>2. QED
      BY <2>1
  <1>2. PICK f, g \in Seq(CalmStep) : todo[t] = f \o (d \o (g \o r))
    BY DEF Fronts, Drives
  <1>3. f \in Seq(Steps) /\ g \in Seq(Steps) /\ d \in Seq(Steps) /\ r \in Seq(Steps)
    BY CalmIsPlain, PlainIsStep DEF Fronts, Rests
  <1> DEFINE w == g \o r
             v == d \o w
  <1>4. w \in Seq(Steps)
    BY <1>3, Joined
  <1>5. v \in Seq(Steps) /\ Range(v) = Range(d) \cup Range(w)
    <2> HIDE DEF w
    <2>1. QED
      BY <1>3, <1>4, Joined, RangeConcatenation
  <1>6. Range(todo[t]) = Range(f) \cup Range(v)
    <2> HIDE DEF v
    <2>1. todo[t] = f \o v
      BY <1>2 DEF v
    <2>2. QED
      BY <1>3, <1>5, <2>1, RangeConcatenation
  <1>7. Head(d) \in Range(d) /\ Head(d).op \in DriverOps
    <2>1. Head(d).op \in DriverOps
      BY DEF Fronts
    <2>2. QED
      BY <1>3, <2>1, RangeNext, EmptySeq
  <1>8. Head(d) \in Range(todo[t])
    BY <1>5, <1>6, <1>7
  <1>9. PICK i \in DOMAIN todo[t] : todo[t][i] = Head(d)
    BY <1>8 DEF Range
  <1>10. todo["play"][i].op \notin {"write", "written"} /\ i \in DOMAIN todo["play"]
    BY <1>7, <1>9 DEF DriverOps
  <1>11. QED
    BY <1>10 DEF NotYetPlayed

\* The engine is paused; no task is where it works on the driver.  Then none does.
LEMMA NobodyDrives ==
  ASSUME NEW at, NEW x, Kept(at, x), NEW t, NEW d, NEW r, Fronts(t, d, r),
         NEW c, Claims(d, c), valid, ~run,
         \A u \in Tasks : at[u] \notin {"open", "resume", "regain", "return", "lent"}
  PROVE  d = <<>> /\ ~NotYetPlayed /\ ~Returning
  <1>1. ~NotYetPlayed
    BY DEF Claims
  <1>2. t \in Tasks
    BY DEF Fronts
  <1>3. d = <<>>
    BY <1>1, <1>2, DriversAt, PlayDrives
  <1>4. ~Returning
    BY ReturnsAt
  <1>5. QED
    BY <1>1, <1>3, <1>4

-----------------------------------------------------------------------------
(* The steps of whoever works on the driver.                                 *)

LEMMA DriverTurns ==
  ASSUME NEW t, NEW d, NEW r, NEW c, Driven(t, d, r, c), TypeOK, valid, NEW u \in Tasks, Busy(u),
         Head(todo[u]).op \in DriverOps, NEW e \in Seq(PlainStep),
         \A h \in Range(e) : h.op \in DriverOps,
         todo' = [todo EXCEPT ![u] = e \o Tail(@)], UNCHANGED <<run, valid, prevMode>>,
         NEW w, w = e \o Tail(d), w # <<>> => Head(w).op \in DriverOps,
         tx' = None, ~ports'["port1"], Working(w, c)'
  PROVE  Sounding'
  <1>1. /\ Fronts(t, d, r) /\ c \in Configs /\ Claims(d, c) /\ DOMAIN todo = Tasks
        /\ d \in Seq(PlainStep)
    BY DEF Driven, TypeOK, Fronts
  <1>2. u = t /\ d # <<>> /\ Head(todo[u]) = Head(d)
    BY <1>1, FrontsTurn
  <1>3. Fronts(t, w, r)'
    BY <1>1, FrontsDriver
  <1>4. prevMode # None
    BY <1>1, <1>2 DEF Claims
  <1>5. u = "play" => NotYetPlayed
    BY <1>1, <1>2, PlayDrives
  <1> DEFINE s == e \o Tail(todo[u])
  <1>6. \A h \in Range(s) \ Range(todo[u]) : h.op \in DriverOps
    <2>1. todo[u] \in Seq(Steps) /\ todo[u] # <<>> /\ e \in Seq(Steps)
      BY <1>1, TodoType, PlainIsStep DEF Busy
    <2>2. Range(s) \subseteq Range(e) \cup Range(todo[u])
      BY <2>1, RangeNext
    <2>3. QED
      BY <2>2
  <1>7. todo' = [todo EXCEPT ![u] = s]
    OBVIOUS
  <1> HIDE DEF s
  <1>8. \A h \in Range(s) \ Range(todo[u]) :
           /\ h # Sets("run", TRUE) /\ (h.op = "run" => ~NotYetPlayed)
           /\ u = "play" => NotYetPlayed \/ h.op \in {"write", "written"}
    BY <1>5, <1>6 DEF Sets, DriverOps
  <1>9. Claims(w, c)'
    BY <1>1, <1>4, <1>7, <1>8, ClaimsKept
  <1>10. Driven(t, w, r, c)'
    BY <1>1, <1>3, <1>9 DEF Driven
  <1>11. QED
    BY <1>10 DEF Sounding

\* The head of what is to be done on the driver is the task's next step.
LEMMA DriverNext ==
  ASSUME NEW t, NEW d, NEW r, NEW c, Driven(t, d, r, c), TypeOK,
         NEW u \in Tasks, NEW op \in DriverOps,
         At(u, op)
  PROVE  /\ Busy(u) /\ Head(todo[u]) = Head(d) /\ Head(d).op = op /\ d # <<>> /\ c \in Configs
         /\ tx = None /\ ~ports["port1"] /\ Working(d, c)
  <1>1. Busy(u) /\ Head(todo[u]).op = op
    BY DEF At, Op
  <1>2. QED
    BY <1>1, FrontsTurn DEF Driven

LEMMA SetupSounds ==
  ASSUME NEW t, NEW d, NEW r, NEW c, Driven(t, d, r, c), TypeOK, valid, NEW u \in Tasks, Setup(u)
  PROVE  Sounding'
  <1> USE DEF driverVars, playVars, ttsVars, convVars
  <1>1. /\ At(u, "setup") /\ "setup" \in DriverOps /\ todo' = [todo EXCEPT ![u] = <<>> \o Tail(@)]
        /\ icfg' = [icfg EXCEPT !.c = Head(todo[u]).c, !.internal = Internal(Head(todo[u]).m)]
        /\ UNCHANGED <<ports, dac, tx, run, valid, prevMode>>
    BY DEF Setup, Done, Continue, DriverOps
  <1>2. /\ Busy(u) /\ Head(todo[u]) = Head(d) /\ Head(d).op = "setup" /\ d # <<>> /\ c \in Configs
        /\ tx = None /\ ~ports["port1"] /\ Working(d, c)
    BY <1>1, DriverNext
  <1>3. PICK m \in Inner : /\ Head(d) = [op |-> "setup", c |-> c, m |-> m]
                           /\ Tail(d) = << PinsStep(m) >> /\ Gone
    BY <1>2, WorkingNext DEF Simple, PinsStep, PortStep
  <1>4. /\ icfg'.c = c /\ icfg'.internal /\ ~icfg'.exit
    <2>1. Head(todo[u]).c = c /\ Internal(Head(todo[u]).m)
      BY <1>2, <1>3 DEF Inner, Internal
    <2>2. icfg \in [c : Configs \cup {None}, internal : BOOLEAN, exit : BOOLEAN]
      BY DEF TypeOK
    <2>3. ~icfg.exit
      BY <1>3 DEF Gone
    <2>4. QED
      BY <1>1, <2>1, <2>2, <2>3
  <1>5. PICK w : w = << PinsStep(m) >>
    OBVIOUS
  <1>6. /\ m \in Modes /\ << PinsStep(m) >> \in Seq(PlainStep) /\ << PinsStep(m) >> # <<>>
        /\ Head(<< PinsStep(m) >>) = PinsStep(m) /\ <<>> \in Seq(PlainStep)
    <2>1. m \in Modes
      BY DEF Inner, Modes
    <2>2. QED
      BY <1>2, <2>1, Jobs
  <1>7. w = <<>> \o Tail(d)
    BY <1>3, <1>5, <1>6, ConcatEmptySeq
  <1>8. Head(w).op \in DriverOps
    BY <1>5, <1>6 DEF PinsStep, DriverOps
  <1>9. Working(w, c)'
    BY <1>1, <1>3, <1>4, <1>5, <1>6 DEF Working, Gone
  <1>10. \A h \in Range(<<>>) : h.op \in DriverOps
    BY RangeOfOne
  <1>11. QED
    BY <1>1, <1>2, <1>6, <1>7, <1>8, <1>9, <1>10, DriverTurns

LEMMA UninstallSounds ==
  ASSUME NEW t, NEW d, NEW r, NEW c, Driven(t, d, r, c), TypeOK, valid, NEW u \in Tasks,
         Uninstall(u)
  PROVE  Sounding'
  <1> USE DEF driverVars, playVars, ttsVars, convVars
  <1> DEFINE e == IF Installed THEN << PinsStep(mode) >> ELSE <<>>
  <1>1. /\ At(u, "uninstall") /\ "uninstall" \in DriverOps
        /\ todo' = [todo EXCEPT ![u] = e \o Tail(@)]
        /\ icfg' = IF Installed THEN [icfg EXCEPT !.exit = TRUE, !.internal = Internal(mode)]
                   ELSE icfg
        /\ UNCHANGED <<ports, dac, tx, run, valid, prevMode>>
    BY DEF Uninstall, Continue, DriverOps, PinsStep
  <1>2. /\ Busy(u) /\ Head(todo[u]) = Head(d) /\ Head(d).op = "uninstall" /\ d # <<>>
        /\ c \in Configs /\ tx = None /\ ~ports["port1"] /\ Working(d, c)
    BY <1>1, DriverNext
  <1>3. PICK m \in Inner : Tail(d) = Install(c, m) /\ Ready
    BY <1>2, WorkingNext DEF Simple, PinsStep, PortStep
  <1>4. /\ m \in Modes /\ mode \in Modes /\ Install(c, m) \in Seq(PlainStep)
        /\ Install(c, m) # <<>> /\ Head(Install(c, m)).op = "setup"
        /\ PinsStep(mode) \in PlainStep
    <2>1. m \in Modes /\ mode \in Modes
      BY DEF Inner, Modes, TypeOK
    <2>2. QED
      BY <1>2, <2>1, Jobs
  <1>5. PICK a : a = PinsStep(mode)
    OBVIOUS
  <1>6. CASE Installed
    <2>1. PICK w : w = << a >> \o Install(c, m)
      OBVIOUS
    <2>2. w # <<>> /\ Head(w) = a
      BY <1>2, <1>4, <1>5, <2>1, Jobs
    <2>3. Head(w).op \in DriverOps
      BY <1>5, <2>2 DEF PinsStep, DriverOps
    <2>4. Working(w, c)'
      <3>1. icfg'.exit = TRUE
        BY <1>1, <1>6 DEF TypeOK
      <3>2. w = << PinsStep(mode) >> \o Install(c, m)
        BY <1>5, <2>1
      <3>3. PICK n \in Modes : n = mode
        BY <1>4
      <3>4. w = << PinsStep(n) >> \o Install(c, m)
        BY <3>2, <3>3
      <3>5. QED
        BY <3>1, <3>4 DEF Working
    <2>5. /\ << a >> \in Seq(PlainStep) /\ todo' = [todo EXCEPT ![u] = << a >> \o Tail(@)]
          /\ w = << a >> \o Tail(d)
      <3>1. e = << a >> /\ << a >> \in Seq(PlainStep)
        BY <1>4, <1>5, <1>6
      <3>2. QED
        BY <1>1, <1>3, <2>1, <3>1
    <2>6. PICK f \in Seq(PlainStep) : f = << a >>
      BY <2>5
    <2>7. \A h \in Range(f) : h.op \in DriverOps
      BY <1>5, <2>6, RangeOfOne DEF PinsStep, DriverOps
    <2>8. todo' = [todo EXCEPT ![u] = f \o Tail(@)] /\ w = f \o Tail(d)
      BY <2>5, <2>6
    <2>9. QED
      BY <1>1, <1>2, <2>3, <2>4, <2>7, <2>8, DriverTurns
  <1>7. CASE ~Installed
    <2>1. PICK w : w = Install(c, m)
      OBVIOUS
    <2>2. /\ todo' = [todo EXCEPT ![u] = <<>> \o Tail(@)] /\ <<>> \in Seq(PlainStep)
          /\ icfg' = icfg
      BY <1>1, <1>7
    <2>3. w = <<>> \o Tail(d)
      BY <1>3, <1>4, <2>1, ConcatEmptySeq
    <2>4. Gone
      <3>1. ~ports["port0"]
        BY <1>7 DEF Installed, Ports
      <3>2. QED
        BY <1>3, <3>1 DEF Ready, Gone
    <2>5. Working(w, c)'
      <3>1. Gone'
        BY <1>1, <2>2, <2>4 DEF Gone
      <3>2. m \in Inner /\ m \in Modes /\ w = Install(c, m)
        BY <1>4, <2>1
      <3>3. QED
        BY <3>1, <3>2 DEF Working
    <2>6. Head(w).op \in DriverOps
      BY <1>4, <2>1 DEF DriverOps
    <2>7. \A h \in Range(<<>>) : h.op \in DriverOps
      BY RangeOfOne
    <2>8. QED
      BY <1>1, <1>2, <2>2, <2>3, <2>5, <2>6, <2>7, DriverTurns
  <1>8. QED
    BY <1>6, <1>7

LEMMA PinsSounds ==
  ASSUME NEW t, NEW d, NEW r, NEW c, Driven(t, d, r, c), TypeOK, valid, NEW u \in Tasks, Pins(u)
  PROVE  Sounding'
  <1> USE DEF driverVars, playVars, ttsVars, convVars
  <1>1. /\ At(u, "pins") /\ "pins" \in DriverOps /\ dac' = NewDac
        /\ tx' = IF icfg.exit THEN None ELSE IF MadeTx THEN icfg.c ELSE tx
        /\ todo' = [todo EXCEPT ![u] = << PortStep(Head(todo[u]).m, PinsReady) >> \o Tail(@)]
        /\ UNCHANGED <<ports, icfg, run, valid, prevMode>>
    BY DEF Pins, Continue, DriverOps, PortStep
  <1>2. /\ Busy(u) /\ Head(todo[u]) = Head(d) /\ Head(d).op = "pins" /\ d # <<>> /\ c \in Configs
        /\ tx = None /\ ~ports["port1"] /\ Working(d, c)
    BY <1>1, DriverNext
  <1>3. PICK m \in Inner, n \in Modes :
          \/ Head(d) = PinsStep(n) /\ Tail(d) = Install(c, m) /\ icfg.exit
          \/ /\ Head(d) = PinsStep(m) /\ Tail(d) = <<>>
             /\ Gone /\ icfg.c = c /\ icfg.internal
    BY <1>2, WorkingNext DEF Simple, PinsStep, PortStep
  <1>4. m \in Modes
    BY DEF Inner, Modes
  <1>5. ASSUME NEW k \in Modes, NEW ok \in BOOLEAN, Head(todo[u]).m = k, PinsReady = ok,
               NEW w, w = << PortStep(k, ok) >> \o Tail(d), tx' = None, Working(w, c)'
        PROVE  Sounding'
    <2>1. PICK a \in PlainStep : a = PortStep(k, ok)
      BY <1>2, <1>4, <1>5, Jobs
    <2>2. /\ << a >> \in Seq(PlainStep) /\ a.op = "port"
          /\ todo' = [todo EXCEPT ![u] = << a >> \o Tail(@)] /\ w = << a >> \o Tail(d)
      <3>1. a = PortStep(Head(todo[u]).m, PinsReady)
        BY <1>5, <2>1
      <3>2. a.op = "port" /\ << a >> \in Seq(PlainStep)
        BY <2>1 DEF PortStep
      <3>3. QED
        BY <1>1, <1>5, <2>1, <3>1, <3>2
    <2>3. Tail(d) \in Seq(PlainStep)
      BY <1>2, HeadTailProperties DEF Driven, Fronts
    <2>4. Head(w) = a
      <3>1. Tail(d) \in Seq(Steps) /\ a \in Steps
        BY <2>1, <2>3, PlainIsStep DEF Steps
      <3>2. PICK z : z = Tail(d)
        OBVIOUS
      <3>3. w = << a >> \o z /\ z \in Seq(Steps)
        BY <2>2, <3>1, <3>2
      <3>4. QED
        BY <3>1, <3>3, HeadAndRest
    <2>5. PICK f \in Seq(PlainStep) : f = << a >>
      BY <2>2
    <2>6. \A h \in Range(f) : h.op \in DriverOps
      BY <2>2, <2>5, RangeOfOne DEF DriverOps
    <2>7. todo' = [todo EXCEPT ![u] = f \o Tail(@)] /\ w = f \o Tail(d)
      BY <2>2, <2>5
    <2>8. Head(w).op \in DriverOps /\ ~ports'["port1"]
      BY <1>1, <1>2, <2>2, <2>4 DEF DriverOps
    <2>9. QED
      BY <1>1, <1>2, <1>5, <2>6, <2>7, <2>8, DriverTurns
  <1>6. CASE Head(d) = PinsStep(n) /\ Tail(d) = Install(c, m) /\ icfg.exit
    <2>1. Head(todo[u]).m = n /\ PinsReady = TRUE
      BY <1>2, <1>6 DEF PinsStep, PinsReady
    <2>2. dac' = None /\ tx' = None
      BY <1>1, <1>6 DEF NewDac
    <2>3. PICK w : w = << PortStep(n, TRUE) >> \o Install(c, m)
      OBVIOUS
    <2>4. Working(w, c)'
      <3>1. icfg'.exit
        BY <1>1, <1>6
      <3>2. QED
        BY <2>2, <2>3, <3>1 DEF Working
    <2>5. w = << PortStep(n, TRUE) >> \o Tail(d)
      BY <1>6, <2>3
    <2>6. QED
      BY <1>5, <2>1, <2>2, <2>4, <2>5
  <1>7. CASE /\ Head(d) = PinsStep(m) /\ Tail(d) = <<>>
             /\ Gone /\ icfg.c = c /\ icfg.internal
    <2>1. /\ Head(todo[u]).m = m /\ PinsReady = Known(c) /\ Known(c) \in BOOLEAN
      BY <1>2, <1>7 DEF PinsStep, PinsReady, MadeDac, MadeTx, Gone, Known
    <2>2. dac' = (IF Known(c) THEN c ELSE None) /\ tx' = None
      BY <1>1, <1>2, <1>7 DEF NewDac, MadeDac, MadeTx, Gone
    <2>3. Known(c) = (dac' # None) /\ (c = Speech => dac' = Speech)
      <3>1. None \notin Configs /\ Known(Speech)
        BY DEF None, Configs, Speech, Music, Voice, Bad, Known
      <3>2. QED
        BY <1>2, <2>2, <3>1 DEF Known
    <2>4. PICK ok \in BOOLEAN : ok = Known(c)
      BY <2>1
    <2>5. PICK w : w = << PortStep(m, ok) >>
      OBVIOUS
    <2>6. w = << PortStep(m, ok) >> \o Tail(d)
      <3>1. PICK a \in PlainStep : a = PortStep(m, ok)
        BY <1>2, <1>4, Jobs
      <3>2. << a >> \in Seq(PlainStep)
        OBVIOUS
      <3>3. << a >> \o <<>> = << a >>
        BY <3>2, ConcatEmptySeq
      <3>4. QED
        BY <1>7, <2>5, <3>1, <3>3
    <2>7. Working(w, c)'
      <3>1. ~icfg'.exit
        BY <1>1, <1>7 DEF Gone
      <3>2. ok = (dac' # None)
        BY <2>3, <2>4
      <3>3. w = << PortStep(m, dac' # None) >>
        BY <2>5, <3>2
      <3>4. QED
        BY <1>4, <2>3, <3>1, <3>3 DEF Working
    <2>8. QED
      BY <1>4, <1>5, <2>1, <2>2, <2>4, <2>6, <2>7
  <1>8. QED
    BY <1>3, <1>6, <1>7

LEMMA PortSounds ==
  ASSUME NEW t, NEW d, NEW r, NEW c, Driven(t, d, r, c), TypeOK, valid, NEW u \in Tasks,
         SetPort(u)
  PROVE  Sounding'
  <1> USE DEF driverVars, playVars, ttsVars, convVars
  <1> DEFINE s == Head(todo[u])
  <1>1. /\ At(u, "port") /\ "port" \in DriverOps /\ todo' = [todo EXCEPT ![u] = <<>> \o Tail(@)]
        /\ ports' = [ports EXCEPT ![PortOf(s.m)] = IF icfg.exit THEN ~s.ok ELSE s.ok]
        /\ icfg' = [icfg EXCEPT !.exit = FALSE]
        /\ UNCHANGED <<dac, tx, run, valid, prevMode>>
    BY DEF SetPort, Done, Continue, DriverOps
  <1>2. /\ Busy(u) /\ s = Head(d) /\ Head(d).op = "port" /\ d # <<>> /\ c \in Configs
        /\ tx = None /\ ~ports["port1"] /\ Working(d, c)
    BY <1>1, DriverNext
  <1>3. PICK m \in Inner, n \in Modes :
          \/ Head(d) = PortStep(n, TRUE) /\ Tail(d) = Install(c, m) /\ icfg.exit /\ dac = None
          \/ /\ Head(d) = PortStep(m, dac # None) /\ Tail(d) = <<>>
             /\ ~icfg.exit /\ (c = Speech => dac = Speech)
    BY <1>2, WorkingNext DEF Simple, PinsStep, PortStep
  <1>4. /\ m \in Modes /\ <<>> \in Seq(PlainStep) /\ Tail(d) \in Seq(PlainStep)
        /\ ports \in [Ports -> BOOLEAN] /\ {"port0", "port1"} = Ports /\ ~icfg'.exit
        /\ \A h \in Range(<<>>) : h.op \in DriverOps
    <2>1. m \in Modes /\ ports \in [Ports -> BOOLEAN] /\ {"port0", "port1"} = Ports
      BY DEF Inner, Modes, TypeOK, Ports
    <2>2. ~icfg'.exit
      BY <1>1 DEF TypeOK
    <2>3. Tail(d) \in Seq(PlainStep)
      BY <1>2, HeadTailProperties DEF Driven, Fronts
    <2>4. QED
      BY <2>1, <2>2, <2>3, RangeOfOne
  <1>5. PICK w : w = Tail(d)
    OBVIOUS
  <1>6. w = <<>> \o Tail(d)
    BY <1>4, <1>5, ConcatEmptySeq
  <1>7. CASE Head(d) = PortStep(n, TRUE) /\ Tail(d) = Install(c, m) /\ icfg.exit /\ dac = None
    <2>1. /\ PortOf(s.m) \in Ports
          /\ ports' = [ports EXCEPT ![PortOf(s.m)] = FALSE]
      <3>1. s.m = n /\ s.ok
        BY <1>2, <1>7 DEF PortStep
      <3>2. PortOf(s.m) \in Ports
        BY DEF PortOf, Ports
      <3>3. (IF icfg.exit THEN ~s.ok ELSE s.ok) = FALSE
        BY <1>7, <3>1
      <3>4. QED
        BY <1>1, <3>2, <3>3
    <2>2. ~ports'["port1"]
      BY <1>2, <1>4, <2>1
    <2>3. Working(w, c)'
      <3>1. Gone'
        BY <1>1, <1>4, <1>7 DEF Gone
      <3>2. m \in Inner /\ m \in Modes /\ w = Install(c, m)
        BY <1>4, <1>5, <1>7
      <3>3. QED
        BY <3>1, <3>2 DEF Working
    <2>4. Head(w).op \in DriverOps
      <3>1. Head(Install(c, m)) = [op |-> "setup", c |-> c, m |-> m]
        BY <1>2, <1>4, Jobs
      <3>2. Head(w) = [op |-> "setup", c |-> c, m |-> m]
        BY <1>5, <1>7, <3>1
      <3>3. QED
        BY <3>2 DEF DriverOps
    <2>5. QED
      BY <1>1, <1>2, <1>4, <1>6, <2>2, <2>3, <2>4, DriverTurns
  <1>8. CASE /\ Head(d) = PortStep(m, dac # None) /\ Tail(d) = <<>>
             /\ ~icfg.exit /\ (c = Speech => dac = Speech)
    <2>1. s.m = m /\ s.ok = (dac # None) /\ PortOf(s.m) = "port0"
      BY <1>2, <1>8 DEF PortStep, PortOf, Inner
    <2>2. ports' = [ports EXCEPT !["port0"] = (dac # None)]
      BY <1>1, <1>8, <2>1
    <2>3. ~ports'["port1"] /\ ports'["port0"] = (dac # None)
      BY <1>2, <1>4, <2>2
    <2>4. Ready'
      BY <1>1, <1>4, <2>3 DEF Ready
    <2>5. w = <<>>
      BY <1>5, <1>8
    <2>6. Working(w, c)'
      BY <1>1, <1>8, <2>4, <2>5 DEF Working
    <2>7. QED
      BY <1>1, <1>2, <1>4, <1>6, <2>3, <2>5, <2>6, DriverTurns
  <1>9. QED
    BY <1>3, <1>7, <1>8

-----------------------------------------------------------------------------
(* Steps that leave the driver alone.                                        *)

LEMMA Onward ==
  ASSUME NEW t, NEW d, NEW r, NEW c, Driven(t, d, r, c), TypeOK, valid, NEW u \in Tasks, NEW s,
         todo' = [todo EXCEPT ![u] = s],
         UNCHANGED <<ports, icfg, dac, tx, run, valid, prevMode>>,
         \A h \in Range(s) \ Range(todo[u]) :
            /\ h # Sets("run", TRUE) /\ (h.op = "run" => ~NotYetPlayed)
            /\ u = "play" => NotYetPlayed \/ h.op \in {"write", "written"},
         NEW q, Fronts(t, d, q)'
  PROVE  Sounding'
  <1>1. c \in Configs /\ Claims(d, c) /\ tx = None /\ ~ports["port1"] /\ Working(d, c)
        /\ DOMAIN todo = Tasks
    BY DEF Driven, TypeOK
  <1>2. prevMode = None => d = <<>> /\ dac' = None
    BY <1>1 DEF Claims
  <1>3. Claims(d, c)'
    BY <1>1, <1>2, ClaimsKept
  <1>4. Working(d, c)'
    BY <1>1 DEF Working, Ready, Gone
  <1>5. Driven(t, d, q, c)'
    BY <1>1, <1>3, <1>4 DEF Driven
  <1>6. QED
    BY <1>5 DEF Sounding

LEMMA NothingSounds ==
  ASSUME NEW t, NEW d, NEW r, NEW c, Driven(t, d, r, c),
         UNCHANGED <<todo, ports, icfg, dac, tx, run, valid, prevMode>>
  PROVE  Sounding'
  <1>1. Fronts(t, d, r)'
    BY DEF Driven, Fronts
  <1>2. NotYetPlayed' = NotYetPlayed /\ Returning' = Returning /\ Unpausing' = Unpausing
    BY DEF NotYetPlayed, Returning, Unpausing
  <1>3. Claims(d, c)'
    BY <1>2 DEF Driven, Claims
  <1>4. Working(d, c)'
    BY DEF Driven, Working, Ready, Gone
  <1>5. Driven(t, d, r, c)'
    BY <1>1, <1>3, <1>4 DEF Driven
  <1>6. QED
    BY <1>5 DEF Sounding

LEMMA CalmSounds ==
  ASSUME NEW t, NEW d, NEW r, NEW c, Driven(t, d, r, c), TypeOK, valid, NEW u \in Tasks, Busy(u),
         Head(todo[u]) \in CalmStep, NEW e \in Seq(CalmStep),
         u = "play" => \A h \in Range(e) : h.op \in {"write", "written"},
         todo' = [todo EXCEPT ![u] = e \o Tail(@)],
         UNCHANGED <<ports, icfg, dac, tx, run, valid, prevMode>>
  PROVE  Sounding'
  <1>1. Fronts(t, d, r) /\ DOMAIN todo = Tasks
    BY DEF Driven, TypeOK
  <1>2. Fronts(t, d, r)'
    BY <1>1, FrontsCalm
  <1> DEFINE s == e \o Tail(todo[u])
  <1>3. \A h \in Range(s) \ Range(todo[u]) : h \in Range(e)
    <2>1. todo[u] \in Seq(Steps) /\ todo[u] # <<>> /\ e \in Seq(Steps)
      BY <1>1, TodoType, CalmIsPlain DEF Busy
    <2>2. Range(s) \subseteq Range(e) \cup Range(todo[u])
      BY <2>1, RangeNext
    <2>3. QED
      BY <2>2
  <1>4. \A h \in Range(e) : h.op # "run" /\ h # Sets("run", TRUE)
    <2>1. Range(e) \subseteq CalmStep
      BY RangeOfSeq
    <2>2. QED
      BY <2>1, StepSorts DEF Sets
  <1>5. todo' = [todo EXCEPT ![u] = s]
    OBVIOUS
  <1> HIDE DEF s
  <1>6. QED
    BY <1>2, <1>3, <1>4, <1>5, Onward

LEMMA MoveSounds ==
  ASSUME NEW t, NEW d, NEW r, NEW c, Driven(t, d, r, c), TypeOK, valid, NEW u \in Tasks \ {"play"},
         ~Busy(u) \/ Head(todo[u]) \in ControlStep, NEW s, Still(s),
         \A h \in Range(s) \ Range(todo[u]) :
            h # Sets("run", TRUE) /\ (h.op = "run" => ~NotYetPlayed),
         todo' = [todo EXCEPT ![u] = s],
         UNCHANGED <<ports, icfg, dac, tx, run, valid, prevMode>>
  PROVE  Sounding'
  <1>1. Fronts(t, d, r) /\ DOMAIN todo = Tasks
    BY DEF Driven, TypeOK
  <1>2. PICK q : Fronts(t, d, q)'
    BY <1>1, FrontsMove
  <1>3. QED
    BY <1>2, Onward

\* A control step that a task is over with.
LEMMA ControlDone ==
  ASSUME NEW at, NEW x, Kept(at, x), NEW u \in Tasks, NEW op \in ControlOps \ {"takeOutput"},
         At(u, op), Done(u)
  PROVE  /\ u # "play" /\ Busy(u) /\ Head(todo[u]) \in ControlStep
         /\ \E s : /\ todo' = [todo EXCEPT ![u] = s] /\ Still(s)
                   /\ Range(s) \subseteq Range(todo[u])
                   /\ s = Tail(todo[u])
  <1>1. /\ Busy(u) /\ at[u] # "none" /\ Head(todo[u]) = First1(at[u])
        /\ Tail(todo[u]) = Rest1(at[u], x) /\ First1(at[u]).op = op
    BY AtStep
  <1>2. at[u] \in Places /\ x \in Nexts /\ at["play"] = "none"
    BY DEF Kept, Ordered, Placed
  <1>3. at[u] # "take"
    BY <1>1, <1>2, StepsOfPlaces
  <1>4. First1(at[u]) \in ControlStep /\ Still(Rest1(at[u], x))
    BY <1>1, <1>2, <1>3, First1Type, RestStill
  <1>5. PICK s : s = Tail(todo[u])
    OBVIOUS
  <1>6. Still(s) /\ s \in Seq(Steps)
    BY <1>1, <1>4, <1>5, StillType
  <1>7. <<>> \o Tail(todo[u]) = s
    BY <1>5, <1>6, ConcatEmptySeq
  <1>8. todo' = [todo EXCEPT ![u] = s]
    BY <1>7 DEF Done, Continue
  <1>9. Range(s) \subseteq Range(todo[u])
    <2>1. /\ at[u] \in Places \ {"none"} /\ Leads(todo[u], ToGo(at[u], x))
          /\ ToGo(at[u], x) \in Seq(Steps)
      BY <1>1, <1>2, ToGoType DEF Kept, Ordered, Placed
    <2>2. todo[u] \in Seq(Steps)
      BY <2>1, PlainIsStep, Joined DEF Leads
    <2>3. todo[u] # <<>> /\ <<>> \in Seq(Steps)
      BY <1>1 DEF Busy
    <2>4. Range(<<>> \o Tail(todo[u])) \subseteq Range(<<>>) \cup Range(todo[u])
      BY <2>2, <2>3, RangeNext
    <2>5. QED
      BY <1>7, <2>4, RangeOfOne
  <1>10. QED
    BY <1>1, <1>2, <1>4, <1>5, <1>6, <1>8, <1>9

LEMMA ControlSounds ==
  ASSUME NEW at, NEW x, Kept(at, x), NEW t, NEW d, NEW r, NEW c, Driven(t, d, r, c), valid,
         NEW u \in Tasks, NEW op \in ControlOps \ {"takeOutput"}, At(u, op), Done(u),
         UNCHANGED <<ports, icfg, dac, tx, run, valid, prevMode>>
  PROVE  Sounding'
  <1>1. PICK s : /\ todo' = [todo EXCEPT ![u] = s] /\ Still(s) /\ Range(s) \subseteq Range(todo[u])
    BY ControlDone
  <1>2. u \in Tasks \ {"play"} /\ Head(todo[u]) \in ControlStep /\ TypeOK
    BY ControlDone DEF Kept
  <1>3. QED
    BY <1>1, <1>2, MoveSounds

\* The engine is paused, or resumed with the driver set up for it.
LEMMA RunSounds ==
  ASSUME NEW at, NEW x, Kept(at, x), NEW t, NEW d, NEW r, NEW c, Driven(t, d, r, c), valid,
         NEW u \in Tasks, SetRun(u)
  PROVE  Sounding'
  <1> USE DEF driverVars, playVars
  <1>1. /\ At(u, "run") /\ "run" \in ControlOps \ {"takeOutput"} /\ Done(u)
        /\ run' = Head(todo[u]).v /\ UNCHANGED <<ports, icfg, dac, tx, valid, prevMode>>
    BY DEF SetRun, ControlOps
  <1>2. PICK s : /\ todo' = [todo EXCEPT ![u] = s] /\ Still(s) /\ Range(s) \subseteq Range(todo[u])
    BY <1>1, ControlDone
  <1>3. /\ u \in Tasks \ {"play"} /\ Head(todo[u]) \in ControlStep /\ Busy(u)
        /\ Head(todo[u]).op = "run" /\ DOMAIN todo = Tasks
    BY <1>1, ControlDone DEF At, Op, Kept, TypeOK
  <1>4. Fronts(t, d, r) /\ Claims(d, c) /\ c \in Configs /\ Working(d, c) /\ tx = None
        /\ ~ports["port1"]
    BY DEF Driven
  <1>5. PICK q : Fronts(t, d, q)'
    BY <1>2, <1>3, <1>4, FrontsMove
  <1>6. Head(todo[u]) \in Range(todo[u])
    <2>1. todo[u] \in Seq(Steps) /\ todo[u] # <<>>
      BY <1>3, <1>4, TodoType DEF Busy
    <2>2. QED
      BY <2>1, RangeNext, EmptySeq
  <1>7. ~NotYetPlayed
    BY <1>3, <1>4, <1>6 DEF Claims, Unpausing
  <1>8. ~NotYetPlayed'
    <2>1. todo'["play"] = todo["play"]
      BY <1>2, <1>3 DEF Tasks
    <2>2. QED
      BY <1>1, <1>7, <2>1 DEF NotYetPlayed
  <1>9. Returning' => Returning
    <2>1. \A v \in Tasks : Range(todo'[v]) \subseteq Range(todo[v])
      BY <1>2, <1>3
    <2>2. QED
      BY <2>1 DEF Returning
  <1>10. run' => Returning
    <2>1. SUFFICES ASSUME run' PROVE Returning
      OBVIOUS
    <2>2. Head(todo[u]) = First1(at[u]) /\ at[u] \in Places \ {"none"} /\ First1(at[u]).op = "run"
      BY <1>1, AtStep DEF Kept, Ordered, Placed
    <2>3. at[u] \in {"pause", "resume", "regain", "return", "hush"}
      BY <2>2, StepsOfPlaces
    <2>4. First1(at[u]) = Sets("run", TRUE) \/ First1(at[u]) = Sets("run", FALSE)
      BY <2>3 DEF First1
    <2>5. Head(todo[u]).v
      BY <1>1, <2>1
    <2>6. First1(at[u]) = Sets("run", TRUE)
      BY <2>2, <2>4, <2>5 DEF Sets
    <2>7. QED
      BY <1>6, <2>2, <2>6 DEF Returning
  <1>11. Claims(d, c)'
    BY <1>1, <1>4, <1>8, <1>9, <1>10 DEF Claims
  <1>12. Working(d, c)'
    BY <1>1, <1>4 DEF Working, Ready, Gone
  <1>13. Driven(t, d, q, c)'
    BY <1>1, <1>4, <1>5, <1>11, <1>12 DEF Driven
  <1>14. QED
    BY <1>13 DEF Sounding

-----------------------------------------------------------------------------
(* Who takes the driver down to set it up again.                             *)

LEMMA Begins ==
  ASSUME NEW t, NEW d, NEW r, NEW c, Driven(t, d, r, c), TypeOK, valid, d = <<>>, ~NotYetPlayed,
         NEW u \in Tasks \ {"play"}, NEW b \in Configs, NEW m \in Inner, NEW s, NEW q \in Rests,
         Drives(s, Uninstalling(b, m), q), q # <<>>, Head(q) \in Followers,
         b = Speech \/ (~run /\ ~Returning /\ Sets("run", TRUE) \notin Range(s)),
         todo' = [todo EXCEPT ![u] = s],
         UNCHANGED <<ports, icfg, dac, tx, run, valid, prevMode>>
  PROVE  Sounding'
  <1>1. /\ Fronts(t, <<>>, r) /\ Claims(d, c) /\ c \in Configs /\ tx = None /\ ~ports["port1"]
        /\ Working(d, c) /\ DOMAIN todo = Tasks
    BY DEF Driven, TypeOK
  <1>2. m \in Modes
    BY DEF Inner, Modes
  <1>3. PICK w : w = Uninstalling(b, m)
    OBVIOUS
  <1>4. w \in Seq(PlainStep) /\ w # <<>> /\ Head(w).op \in DriverOps
    <2>1. Simple("uninstall") \in PlainStep /\ Simple("uninstall").op \in DriverOps
      BY <1>2, Jobs DEF Simple, DriverOps
    <2>2. QED
      BY <1>2, <1>3, <2>1, Jobs DEF Uninstalling
  <1>5. Fronts(u, w, q)'
    BY <1>1, <1>3, <1>4, FrontsBegin
  <1>6. Ready
    BY <1>1, WorkingNothing
  <1>7. Working(w, b)'
    <2>1. Ready'
      BY <1>6 DEF Ready
    <2>2. QED
      BY <1>2, <1>3, <2>1 DEF Working
  <1>8. prevMode \in {None, "I2S_DAC"} /\ prevMode # None
    BY <1>1 DEF Claims, NotYetPlayed
  <1>9. ~NotYetPlayed'
    <2>1. todo'["play"] = todo["play"]
      BY <1>1 DEF Tasks
    <2>2. QED
      BY <2>1 DEF NotYetPlayed
  <1>10. ~run /\ ~Returning /\ Sets("run", TRUE) \notin Range(s) => ~run' /\ ~Returning'
    <2>1. SUFFICES ASSUME ~run, ~Returning, Sets("run", TRUE) \notin Range(s)
                   PROVE  ~Returning'
      OBVIOUS
    <2>2. \A v \in Tasks : Sets("run", TRUE) \notin Range(todo[v])
      BY <2>1 DEF Returning
    <2>3. \A v \in Tasks : todo'[v] = IF v = u THEN s ELSE todo[v]
      BY <1>1
    <2>4. ASSUME NEW v \in Tasks PROVE Sets("run", TRUE) \notin Range(todo'[v])
      BY <2>1, <2>2, <2>3
    <2>5. QED
      BY <2>4 DEF Returning
  <1>11. Claims(w, b)'
    BY <1>8, <1>9, <1>10 DEF Claims
  <1>12. Driven(u, w, q, b)'
    BY <1>1, <1>5, <1>7, <1>11 DEF Driven
  <1>13. QED
    BY <1>12 DEF Sounding

\* What a task goes on with, once it has the driver.
LEMMA FollowersAt ==
  ASSUME NEW a \in {"open", "resume", "regain", "return", "lent"}, NEW x \in Nexts
  PROVE  ToGo(a, x) \in Rests /\ ToGo(a, x) # <<>> /\ Head(ToGo(a, x)) \in Followers
  <1>1. a \in Places \ {"none"}
    BY DEF Places, Talking, Refusing, Stopping, Lending
  <1>2. First1(a) \in Followers
    BY DEF First1, Followers
  <1>3. QED
    BY <1>1, <1>2, ToGoRests

\* Speech is set up again, between calm steps and the step that goes on.
LEMMA ResetDrives ==
  ASSUME NEW a \in {"resume", "regain", "return"}, NEW x \in Nexts, NEW f \in Seq(CalmStep)
  PROVE  Drives((f \o Reconfigure(Speech, "I2S_DAC")) \o ToGo(a, x),
                Uninstalling(Speech, "I2S_DAC"), ToGo(a, x))
  <1> DEFINE conf == Reconfigure(Speech, "I2S_DAC")
             q == ToGo(a, x)
             w == Uninstalling(Speech, "I2S_DAC")
  <1>1. Speech \in Configs /\ "I2S_DAC" \in Modes /\ <<>> \in Seq(CalmStep)
    BY CalmIsPlain DEF Configs, Modes
  <1>2. conf \in Seq(Steps) /\ f \in Seq(Steps) /\ q \in Seq(Steps) /\ q \in Rests
    BY <1>1, PlainSequences, PlainIsStep, CalmIsPlain, FollowersAt DEF Rests
  <1>3. Drives(f \o (conf \o (<<>> \o q)), w, q)
    BY <1>1, <1>2, ReconfigureDrives
  <1> HIDE DEF conf, q, w
  <1>4. <<>> \o q = q /\ (f \o conf) \o q = f \o (conf \o q)
    BY <1>2, ConcatEmptySeq, Joined
  <1>5. QED
    BY <1>3, <1>4 DEF conf, q, w

\* The conversation takes the output.
LEMMA TakeSounds ==
  ASSUME NEW at, NEW x, Kept(at, x), NEW t, NEW d, NEW r, NEW c, Driven(t, d, r, c), valid,
         ~Overlapping, NEW u \in Tasks, TakeOutput(u)
  PROVE  Sounding'
  <1> USE DEF driverVars, playVars, ttsVars
  <1>1. /\ At(u, "takeOutput") /\ "takeOutput" \in ControlOps /\ Continue(u, <<>>)
        /\ UNCHANGED <<ports, icfg, dac, tx, run, valid, prevMode>>
    BY DEF TakeOutput, Done, ControlOps
  <1>2. /\ Busy(u) /\ at[u] # "none" /\ Head(todo[u]) = First1(at[u])
        /\ Tail(todo[u]) = Rest1(at[u], x) /\ First1(at[u]).op = "takeOutput"
    BY <1>1, AtStep
  <1>3. /\ at \in [Tasks -> Places] /\ x \in Nexts /\ Placed(at, x) /\ Stack(at["main"])
        /\ Told(at, x) /\ Owner(at) /\ TypeOK /\ {"main", "radio", "play"} \subseteq Tasks
        /\ Fronts(t, d, r) /\ Claims(d, c)
    BY DEF Kept, Ordered, Placed, Talk, Owned, Tasks, Driven
  <1>4. at[u] = "take"
    BY <1>2, <1>3, StepsOfPlaces
  <1>5. u = "main"
    BY <1>3, <1>4 DEF Placed, Tasks, Refusing, Lending
  <1>6. ~run
    BY <1>3, <1>4, <1>5 DEF Owner, Held
  <1>7. \A v \in Tasks : at[v] \notin {"open", "resume", "regain", "return", "lent"}
    <2>1. ASSUME NEW v \in Tasks, at[v] \in {"open", "resume", "regain", "return", "lent"}
          PROVE  FALSE
      <3>1. v # "main"
        BY <1>4, <1>5, <2>1
      <3>2. at[v] \in {"regain", "lent"}
        BY <1>3, <2>1, <3>1 DEF Placed, Tasks, Refusing, Lending
      <3>3. CASE at[v] = "regain"
        BY <1>3, <1>4, <1>5, <3>1, <3>3 DEF Told, Talks, Talking, Refusing
      <3>4. CASE at[v] = "lent"
        <4>1. v = "radio"
          BY <1>3, <3>1, <3>4 DEF Placed, Tasks, Refusing
        <4>2. ~Busy("radio")
          BY <1>3, <1>4, <1>5 DEF Stack, Talking, StackOff, Unheard, Busy
        <4>3. QED
          BY <1>3, <3>4, <4>1, <4>2, TaskFree
      <3>5. QED
        BY <3>2, <3>3, <3>4
    <2>2. QED
      BY <2>1
  <1>8. d = <<>> /\ ~NotYetPlayed /\ ~Returning
    BY <1>3, <1>6, <1>7, NobodyDrives
  <1>9. PICK b \in {Voice, Bad} :
          Drives(Rest1("take", x), Uninstalling(b, "I2S_ADC"), ToGo("open", x))
    BY <1>3, TakeDrives
  <1>10. PICK s : s = Rest1("take", x)
    OBVIOUS
  <1>11. s \in Seq(Steps)
    <2>1. "take" \in Places
      BY DEF Places, Talking
    <2>2. QED
      BY <1>3, <1>10, <2>1, RestType
  <1>12. <<>> \o Tail(todo[u]) = s
    BY <1>2, <1>4, <1>10, <1>11, ConcatEmptySeq
  <1>13. todo' = [todo EXCEPT ![u] = s]
    BY <1>1, <1>12 DEF Continue
  <1>14. Sets("run", TRUE) \notin Range(s)
    <2>1. todo[u] \in Seq(Steps) /\ todo[u] # <<>> /\ <<>> \in Seq(Steps)
      BY <1>2, <1>3, TodoType DEF Busy
    <2>2. Range(<<>> \o Tail(todo[u])) \subseteq Range(<<>>) \cup Range(todo[u])
      BY <2>1, RangeNext
    <2>3. QED
      BY <1>8, <1>12, <2>2, RangeOfOne DEF Returning
  <1>15. PICK q \in Rests : q = ToGo("open", x) /\ q # <<>> /\ Head(q) \in Followers
    BY <1>3, FollowersAt
  <1>16. b \in Configs /\ "I2S_ADC" \in Inner /\ u \in Tasks \ {"play"}
    BY <1>5 DEF Configs, Inner
  <1>17. QED
    BY <1>1, <1>3, <1>6, <1>8, <1>9, <1>10, <1>13, <1>14, <1>15, <1>16, Begins

\* Somebody stops the conversation, and nobody else is anywhere.
LEMMA StopSounds ==
  ASSUME NEW at, NEW x, Kept(at, x), NEW t, NEW d, NEW r, NEW c, Driven(t, d, r, c), valid,
         ~Overlapping, NEW u \in {"main"} \cup Recorders, u # "play", u # "radio", ~Busy(u), active,
         MayBegin(u), NEW s, todo' = [todo EXCEPT ![u] = s],
         s = StopConversation \/ s = StopConversation \o Ended,
         UNCHANGED <<ports, icfg, dac, tx, run, valid, prevMode>>
  PROVE  Sounding'
  <1>1. /\ at \in [Tasks -> Places] /\ x \in Nexts /\ Placed(at, x)
        /\ Owner(at) /\ TypeOK /\ {"main", "radio", "play"} \subseteq Tasks
        /\ Fronts(t, d, r) /\ Claims(d, c) /\ u \in Tasks \ {"play"}
    BY DEF Kept, Ordered, Placed, Owned, Tasks, Driven
  <1>2. \A v \in Tasks \ {u} : ~Talks(at[v], x)
    BY <1>1, Alone
  <1>3. /\ ~bt.started /\ at["radio"] = "none" /\ at["main"] \in {"none"} \cup Talking
        /\ at[u] = "none" /\ at["play"] = "none"
    BY <1>1, Calling, TaskFree DEF Placed
  <1>4. \A v \in Tasks : at[v] = "none"
    <2>1. ASSUME NEW v \in Tasks PROVE at[v] = "none"
      <3>1. \A a \in Talking \cup Refusing : Talks(a, x)
        BY DEF Talks
      <3>2. v # u => at[v] \notin Talking \cup Refusing
        BY <1>2, <3>1
      <3>3. v \in Recorders => at[v] \in {"none"} \cup Refusing
        BY <1>1 DEF Placed
      <3>4. QED
        BY <1>3, <3>2, <3>3 DEF Tasks
    <2>2. QED
      BY <2>1
  <1>5. ~run
    BY <1>1, <1>4 DEF Owner, Held
  <1>6. d = <<>> /\ ~NotYetPlayed /\ ~Returning
    BY <1>1, <1>4, <1>5, NobodyDrives
  <1> DEFINE f == << Simple("recStop") >>
  <1>7. PICK a \in {"resume", "regain"} : s = (f \o Reconfigure(Speech, "I2S_DAC")) \o ToGo(a, x)
    BY StopSteps
  <1>8. f \in Seq(CalmStep)
    BY CalmSequences
  <1> HIDE DEF f
  <1>9. PICK q \in Rests : q = ToGo(a, x) /\ q # <<>> /\ Head(q) \in Followers
    BY <1>1, FollowersAt
  <1>10. Drives(s, Uninstalling(Speech, "I2S_DAC"), q)
    BY <1>1, <1>7, <1>8, <1>9, ResetDrives
  <1>11. Speech \in Configs /\ "I2S_DAC" \in Inner
    BY DEF Configs, Inner
  <1>12. QED
    BY <1>1, <1>6, <1>9, <1>10, <1>11, Begins

\* Bluetooth gives the output back.
LEMMA HandBackSounds ==
  ASSUME SoundAssumption, NEW at, NEW x, Kept(at, x), NEW t, NEW d, NEW r, NEW c,
         Driven(t, d, r, c), valid, ~Overlapping, HandBack
  PROVE  Sounding'
  <1> USE DEF driverVars, playVars, ttsVars
  <1>1. /\ At("main", "handBack") /\ "handBack" \in ControlOps
        /\ Continue("main", IF bt.started THEN Reset \o << Simple("notStarted") >> ELSE <<>>)
        /\ UNCHANGED <<ports, icfg, dac, tx, run, valid, prevMode>>
    BY DEF HandBack, ControlOps
  <1>2. CASE ~bt.started
    <2>1. Done("main") /\ "main" \in Tasks
      BY <1>1, <1>2 DEF Done, Tasks
    <2>2. QED
      BY <1>1, <2>1, ControlSounds
  <1>3. CASE bt.started
    <2>1. /\ at["main"] \in Starting \cup Stopping /\ First1(at["main"]).op = "handBack"
          /\ Tail(todo["main"]) = Rest1(at["main"], x)
          /\ Stack(at["main"]) /\ TypeOK /\ x \in Nexts /\ ~active
          /\ "main" \in Tasks /\ "radio" \in Tasks /\ Placed(at, x) /\ DOMAIN todo = Tasks
      BY <1>1, MainAt
    <2>2. at["main"] = "parting"
      <3>1. at["main"] \in Places \ {"none"}
        BY <2>1 DEF Places, Starting, Stopping
      <3>2. QED
        BY <2>1, <3>1, StepsOfPlaces
    <2>3. Told(at, x) /\ Owner(at) /\ Fronts(t, d, r) /\ Claims(d, c)
      BY DEF Kept, Ordered, Talk, Owned, Driven
    <2>4. ~run
      BY <1>3, <2>2, <2>3 DEF Owner, Held
    <2>5. ~Busy("radio")
      BY <2>1, <2>2 DEF Stack, Unheard, Busy
    <2>6. \A v \in Tasks : at[v] \notin {"open", "resume", "regain", "return", "lent"}
      <3>1. ASSUME NEW v \in Tasks, at[v] \in {"open", "resume", "regain", "return", "lent"}
            PROVE  FALSE
        <4>1. at["radio"] = "none"
          BY <2>1, <2>5, TaskFree
        <4>2. v # "main" /\ v # "radio"
          BY <2>2, <3>1, <4>1
        <4>3. at[v] = "regain"
          BY <2>1, <3>1, <4>2 DEF Placed, Tasks, Refusing
        <4>4. active
          BY <2>3, <4>3 DEF Told, Going
        <4>5. QED
          BY <2>1, <4>4
      <3>2. QED
        BY <3>1
    <2>7. d = <<>> /\ ~NotYetPlayed /\ ~Returning
      BY <2>3, <2>4, <2>6, NobodyDrives
    <2>8. Tail(todo["main"]) = Say \o Off(x)
      BY <2>1, <2>2 DEF Rest1, ToGo
    <2>9. PICK s : s = (Reset \o << Simple("notStarted") >>) \o (Say \o Off(x))
      OBVIOUS
    <2>10. todo' = [todo EXCEPT !["main"] = s]
      BY <1>1, <1>3, <2>8, <2>9 DEF Continue
    <2> DEFINE conf == Reconfigure(Speech, "I2S_DAC")
    <2>11. s = (<<>> \o conf) \o ToGo("return", x)
      <3>1. s = conf \o ToGo("return", x) /\ conf \in Seq(PlainStep)
        BY <2>1, <2>9, ReturnSteps
      <3> HIDE DEF conf
      <3>2. <<>> \o conf = conf
        BY <3>1, ConcatEmptySeq
      <3>3. QED
        BY <3>1, <3>2
    <2>12. PICK q \in Rests : q = ToGo("return", x) /\ q # <<>> /\ Head(q) \in Followers
      BY <2>1, FollowersAt
    <2>13. Drives(s, Uninstalling(Speech, "I2S_DAC"), q)
      BY <2>1, <2>11, <2>12, ResetDrives, CalmIsPlain
    <2>14. Speech \in Configs /\ "I2S_DAC" \in Inner
      BY DEF Configs, Inner
    <2>15. QED
      BY <1>1, <2>1, <2>7, <2>10, <2>12, <2>13, <2>14, Begins
  <1>4. QED
    BY <1>2, <1>3

\* Music takes the output.
LEMMA LendSounds ==
  ASSUME NEW at, NEW x, Kept(at, x), NEW t, NEW d, NEW r, NEW c, Driven(t, d, r, c), valid,
         ~Overlapping, Lend
  PROVE  Sounding'
  <1> USE DEF driverVars, playVars, ttsVars
  <1>1. /\ At("radio", "lend") /\ "lend" \in ControlOps
        /\ Continue("radio", IF run THEN <<>>
                             ELSE Reconfigure(Music, "I2S_DAC") \o << Simple("started") >>)
        /\ UNCHANGED <<ports, icfg, dac, tx, run, valid, prevMode>> /\ "radio" \in Tasks
    BY DEF Lend, ControlOps, Tasks
  <1>2. CASE run
    <2>1. Done("radio")
      BY <1>1, <1>2 DEF Done
    <2>2. QED
      BY <1>1, <2>1, ControlSounds
  <1>3. CASE ~run
    <2>1. /\ at \in [Tasks -> Places] /\ x \in Nexts /\ Placed(at, x) /\ Stack(at["main"])
          /\ Told(at, x) /\ TypeOK /\ Fronts(t, d, r) /\ Claims(d, c)
      BY DEF Kept, Ordered, Placed, Talk, Driven
    <2>2. at["radio"] # "none" /\ Tail(todo["radio"]) = Rest1(at["radio"], x)
          /\ First1(at["radio"]).op = "lend" /\ Busy("radio")
      BY <1>1, AtStep
    <2>3. at["radio"] = "lend" /\ Tail(todo["radio"]) = <<>>
      <3>1. at["radio"] = "lend"
        BY <1>1, <2>1, <2>2, StepsOfPlaces
      <3>2. QED
        BY <2>2, <3>1 DEF Rest1
    <2>4. \A v \in Tasks : at[v] \notin {"open", "resume", "regain", "return", "lent"}
      <3>1. ASSUME NEW v \in Tasks, at[v] \in {"open", "resume", "regain", "return", "lent"}
            PROVE  FALSE
        <4>1. v # "radio" /\ ~Unheard
          BY <2>2, <2>3, <3>1 DEF Unheard, Busy
        <4>2. CASE v = "main"
          BY <2>1, <3>1, <4>1, <4>2
          DEF Stack, StackOff, Talking, Placed, MainPlaces, Lending, Refusing
        <4>3. CASE v # "main"
          <5>1. at[v] = "regain"
            BY <2>1, <3>1, <4>1, <4>3 DEF Placed, Tasks, Refusing
          <5>2. active
            BY <2>1, <5>1 DEF Told, Going
          <5>3. QED
            BY <2>3, <5>2, Calling
        <4>4. QED
          BY <4>2, <4>3
      <3>2. QED
        BY <3>1
    <2>5. d = <<>> /\ ~NotYetPlayed /\ ~Returning
      BY <1>3, <2>1, <2>4, NobodyDrives
    <2> DEFINE conf == Reconfigure(Music, "I2S_DAC")
               n == << Simple("started") >>
    <2>6. PICK s : s = conf \o n
      OBVIOUS
    <2>7. /\ conf \in Seq(PlainStep) /\ conf \in Seq(Steps) /\ n \in Seq(Steps) /\ n \o <<>> = n
          /\ ToGo("lent", x) = n \o <<>>
      <3>1. conf \in Seq(PlainStep) /\ n \in Seq(Steps)
        BY PlainSequences, ControlSequences DEF Configs, Modes
      <3>2. ToGo("lent", x) = n \o <<>>
        BY DEF ToGo
      <3> HIDE DEF conf, n
      <3>3. QED
        BY <3>1, <3>2, PlainIsStep, ConcatEmptySeq
    <2> HIDE DEF conf, n
    <2>8. s \in Seq(Steps) /\ s \o <<>> = s
      BY <2>6, <2>7, Joined, ConcatEmptySeq
    <2>9. todo' = [todo EXCEPT !["radio"] = s]
      BY <1>1, <1>3, <2>3, <2>6, <2>8 DEF Continue, conf, n
    <2>10. PICK q \in Rests : q = ToGo("lent", x) /\ q # <<>> /\ Head(q) \in Followers
      BY <2>1, FollowersAt
    <2>11. Music \in Configs /\ "I2S_DAC" \in Inner /\ "I2S_DAC" \in Modes
      BY DEF Configs, Inner, Modes
    <2>12. Drives(s, Uninstalling(Music, "I2S_DAC"), q)
      <3>1. Drives(<<>> \o (conf \o (<<>> \o q)), Uninstalling(Music, "I2S_DAC"), q)
        BY <2>11, CalmIsPlain, ReconfigureDrives DEF conf
      <3>2. <<>> \o q = q /\ conf \o q = s
        BY <2>6, <2>7, <2>10, ConcatEmptySeq
      <3>3. <<>> \o s = s
        BY <2>8, ConcatEmptySeq
      <3>4. QED
        BY <3>1, <3>2, <3>3
    <2>13. Sets("run", TRUE) \notin Range(s)
      <3>1. Range(s) = Range(conf) \cup Range(n) /\ Range(conf) \subseteq PlainStep
        BY <2>6, <2>7, RangeConcatenation, RangeOfPlain
      <3>2. Sets("run", TRUE) \notin PlainStep
        BY ControlSteps, StepOps DEF Steps
      <3>3. Sets("run", TRUE) \notin Range(ToGo("lent", x))
        <4>1. "lent" \in Places /\ x \in Nexts
          BY <2>1 DEF Places, Lending
        <4>2. ASSUME Sets("run", TRUE) \in Range(ToGo("lent", x)) PROVE FALSE
          <5>1. "lent" \in {"resume", "regain", "return"}
            BY <4>1, <4>2, ReturnPlaces
          <5>2. QED
            BY <5>1
        <4>3. QED
          BY <4>2
      <3>4. QED
        BY <2>7, <3>1, <3>2, <3>3
    <2>14. QED
      BY <1>1, <1>3, <2>1, <2>5, <2>9, <2>10, <2>11, <2>12, <2>13, Begins
  <1>4. QED
    BY <1>2, <1>3

-----------------------------------------------------------------------------
(* What the handlers begin with, and their calm steps.                       *)

LEMMA CalmTurn ==
  ASSUME NEW at, NEW x, Kept(at, x), NEW t, NEW d, NEW r, NEW c, Driven(t, d, r, c), valid,
         NEW u \in Tasks, NEW op \in PlainOps \ DriverOps, At(u, op), NEW e \in Seq(CalmStep),
         u = "play" => \A h \in Range(e) : h.op \in {"write", "written"}, Continue(u, e),
         UNCHANGED <<ports, icfg, dac, tx, run, valid, prevMode>>
  PROVE  Sounding'
  <1>1. Busy(u) /\ Head(todo[u]) \in CalmStep /\ TypeOK
    BY AtStep DEF CalmStep, Kept
  <1>2. todo' = [todo EXCEPT ![u] = e \o Tail(@)]
    BY DEF Continue
  <1>3. QED
    BY <1>1, <1>2, CalmSounds

LEMMA QuietTurns ==
  ASSUME SoundAssumption, NEW at, NEW x, Kept(at, x), NEW t, NEW d, NEW r, NEW c,
         Driven(t, d, r, c), valid, NEW u \in Tasks,
         \/ SetMode(u) \/ StopRecorder(u) \/ StartRecorder(u) \/ RecordEnded(u)
         \/ u # "play" /\ (SpeakWords(u) \/ QueueClip(u))
         \/ u = "play" /\ (WriteClip \/ ClipWritten)
  PROVE  Sounding'
  <1> USE DEF driverVars, playVars, ttsVars
  <1>1. {"mode", "recStop", "record", "ended", "speak", "clip", "write", "written"}
           \subseteq PlainOps \ DriverOps
    BY DEF PlainOps, DriverOps
  <1>2. <<>> \in Seq(CalmStep) /\ \A h \in Range(<<>>) : h.op \in {"write", "written"}
    BY CalmSequences, RangeOfOne
  <1>3. CASE SetMode(u) \/ StopRecorder(u) \/ StartRecorder(u) \/ RecordEnded(u)
    <2>1. /\ At(u, "mode") \/ At(u, "recStop") \/ At(u, "record") \/ At(u, "ended")
          /\ Continue(u, <<>>) /\ UNCHANGED <<ports, icfg, dac, tx, run, valid, prevMode>>
      BY <1>3 DEF SetMode, StopRecorder, StartRecorder, RecordEnded, Done
    <2>2. QED
      BY <1>1, <1>2, <2>1, CalmTurn
  <1>4. CASE u # "play" /\ SpeakWords(u)
    <2>1. PICK w \in Sentences, said \in BOOLEAN :
            Continue(u, IF run /\ valid /\ said
                        THEN [i \in DOMAIN Clips(w, Package) |-> Simple("clip")] ELSE <<>>)
      BY <1>4 DEF SpeakWords
    <2> DEFINE clips == [i \in 1 .. Len(Clips(w, Package)) |-> Simple("clip")]
    <2>2. DOMAIN Clips(w, Package) = 1 .. Len(Clips(w, Package)) /\ Len(Clips(w, Package)) \in Nat
      BY DEF SoundAssumption
    <2>3. Simple("clip") \in CalmStep
      BY PlainSteps DEF CalmStep, DriverOps, Simple
    <2>4. clips \in Seq(CalmStep)
      BY <2>2, <2>3, IsASeq
    <2> DEFINE e == IF run /\ valid /\ said THEN clips ELSE <<>>
    <2>5. Continue(u, e) /\ e \in Seq(CalmStep)
      BY <1>2, <2>1, <2>2, <2>4
    <2>6. At(u, "speak") /\ UNCHANGED <<ports, icfg, dac, tx, run, valid, prevMode>>
      BY <1>4 DEF SpeakWords
    <2> HIDE DEF e
    <2>7. QED
      BY <1>1, <1>4, <2>5, <2>6, CalmTurn
  <1>5. CASE u # "play" /\ QueueClip(u)
    <2> DEFINE e == << [op |-> "mode", m |-> "I2S_DAC"] >> \o Rest
    <2>1. /\ At(u, "clip") /\ Continue(u, e)
          /\ UNCHANGED <<ports, icfg, dac, tx, run, valid, prevMode>>
      BY <1>5 DEF QueueClip
    <2>2. << [op |-> "mode", m |-> "I2S_DAC"] >> \in Seq(CalmStep)
      BY CalmSequences DEF Modes
    <2>3. e \in Seq(CalmStep)
      BY <1>2, <2>2, ConcatProperties DEF Rest
    <2> HIDE DEF e
    <2>4. QED
      BY <1>1, <1>5, <2>1, <2>3, CalmTurn
  <1>6. CASE u = "play" /\ WriteClip
    <2>1. /\ At(u, "write") /\ Continue(u, << Simple("written") >>)
          /\ UNCHANGED <<ports, icfg, dac, tx, run, valid, prevMode>>
      BY <1>6 DEF WriteClip
    <2>2. << Simple("written") >> \in Seq(CalmStep)
      BY CalmSequences
    <2>3. \A h \in Range(<< Simple("written") >>) : h.op \in {"write", "written"}
      BY RangeOfOne DEF Simple
    <2>4. QED
      BY <1>1, <2>1, <2>2, <2>3, CalmTurn
  <1>7. CASE u = "play" /\ ClipWritten
    <2>1. /\ At(u, "written") /\ Continue(u, <<>>)
          /\ UNCHANGED <<ports, icfg, dac, tx, run, valid, prevMode>>
      BY <1>7 DEF ClipWritten, Done
    <2>2. QED
      BY <1>1, <1>2, <2>1, CalmTurn
  <1>8. QED
    BY <1>3, <1>4, <1>5, <1>6, <1>7

\* A task that speaks, or does nothing at first.
LEMMA SpeechBegins ==
  ASSUME NEW t, NEW d, NEW r, NEW c, Driven(t, d, r, c), TypeOK, valid, NEW u \in Tasks \ {"play"},
         ~Busy(u), NEW s \in Seq(CalmStep), todo' = [todo EXCEPT ![u] = s],
         UNCHANGED <<ports, icfg, dac, tx, run, valid, prevMode>>
  PROVE  Sounding'
  <1>1. s \in Seq(Steps) /\ s \o <<>> = s
    BY CalmIsPlain, ConcatEmptySeq
  <1>2. <<>> \in Rests
    BY EmptySeq DEF Rests
  <1>3. Still(s)
    <2>1. Still(s \o <<>>)
      BY <1>2, StillAt
    <2>2. QED
      BY <1>1, <2>1
  <1>4. \A h \in Range(s) : h.op # "run" /\ h # Sets("run", TRUE)
    <2>1. Range(s) \subseteq CalmStep
      BY RangeOfSeq
    <2>2. QED
      BY <2>1, StepSorts DEF Sets
  <1>5. QED
    BY <1>3, <1>4, MoveSounds

\* A task goes to a place where the engine is not resumed, and is not paused before
\* the first clip.
LEMMA PlaceBegins ==
  ASSUME NEW t, NEW d, NEW r, NEW c, Driven(t, d, r, c), TypeOK, valid, NEW u \in Tasks \ {"play"},
         ~Busy(u) \/ Head(todo[u]) \in ControlStep,
         NEW a \in Places \ {"resume", "regain", "return"}, NEW x \in Nexts,
         (\A h \in Range(ToGo(a, x)) : h.op # "run") \/ ~NotYetPlayed,
         todo' = [todo EXCEPT ![u] = ToGo(a, x)],
         UNCHANGED <<ports, icfg, dac, tx, run, valid, prevMode>>
  PROVE  Sounding'
  <1>1. PICK s : s = ToGo(a, x)
    OBVIOUS
  <1>2. s \in Rests /\ s \in Seq(Steps) /\ <<>> \o s = s
    BY <1>1, ToGoRests, ConcatEmptySeq DEF Rests
  <1>3. Still(s)
    <2>1. Still(<<>> \o s)
      BY <1>2, StillAt, CalmIsPlain
    <2>2. QED
      BY <1>2, <2>1
  <1>4. Sets("run", TRUE) \notin Range(s)
    BY <1>1, ReturnPlaces
  <1>5. \A h \in Range(s) \ Range(todo[u]) :
           h # Sets("run", TRUE) /\ (h.op = "run" => ~NotYetPlayed)
    BY <1>1, <1>4
  <1>6. todo' = [todo EXCEPT ![u] = s]
    BY <1>1
  <1>7. QED
    BY <1>3, <1>5, <1>6, MoveSounds

\* Bluetooth does not pause the engine when it starts, and only resumes it when it stops.
LEMMA MutePlaces ==
  ASSUME NEW x \in Nexts, NEW a \in Starting \cup {"none", "downFirst"},
         a = "downFirst" => x = <<>>
  PROVE  \A h \in Range(ToGo(a, x)) : h.op # "run"
  <1> DEFINE Mute(b) == \A h \in Range(ToGo(b, x)) : h.op # "run"
  <1>1. \A h \in PlainStep : h.op # "run"
    BY StepOps DEF PlainOps
  <1>2. ASSUME NEW b \in Places \ {"none", "pause", "resume", "regain", "return", "hush"},
               Mute(After(b, x))
        PROVE  Mute(b)
    <2>1. First1(b).op # "run"
      BY StepsOfPlaces
    <2>2. ASSUME NEW h \in Range(ToGo(b, x)) PROVE h.op # "run"
      <3>1. h = First1(b) \/ h \in PlainStep \/ h \in Range(ToGo(After(b, x), x))
        BY <2>2, RangeToGo
      <3>2. QED
        BY <1>1, <1>2, <2>1, <3>1
    <2>3. QED
      BY <2>2
  <1>3. Mute("none")
    BY RangeOfOne DEF ToGo
  <1>4. {"bring", "on", "notOn", "off", "failLast", "failFirst", "parting", "downLast", "downFirst"}
           \subseteq Places \ {"none", "pause", "resume", "regain", "return", "hush"}
    BY DEF Places, Talking, Refusing, Starting, Stopping, Lending
  <1>5. /\ After("bring", x) = "none" /\ After("on", x) = "none" /\ After("notOn", x) = "none"
        /\ (x = <<>> => After("off", x) = "none") /\ After("failLast", x) = "notOn"
        /\ After("failFirst", x) = "failLast" /\ After("parting", x) = "off"
        /\ After("downLast", x) = "parting" /\ After("downFirst", x) = "downLast"
    BY DEF After
  <1> HIDE DEF Mute
  <1>6. Mute("bring") /\ Mute("on") /\ Mute("notOn") /\ (x = <<>> => Mute("off"))
    BY <1>2, <1>3, <1>4, <1>5
  <1>7. Mute("failLast") /\ (x = <<>> => Mute("parting"))
    BY <1>2, <1>4, <1>5, <1>6
  <1>8. Mute("failFirst") /\ (x = <<>> => Mute("downLast"))
    BY <1>2, <1>4, <1>5, <1>7
  <1>9. x = <<>> => Mute("downFirst")
    BY <1>2, <1>4, <1>5, <1>8
  <1>10. Mute(a)
    BY <1>3, <1>6, <1>7, <1>8, <1>9 DEF Starting
  <1>11. QED
    BY <1>10 DEF Mute

\* A command begins.
LEMMA CommandSounds ==
  ASSUME SoundAssumption, ~Overlapping, ~Early, NEW at, NEW x, Kept(at, x),
         NEW t, NEW d, NEW r, NEW c, Driven(t, d, r, c), valid, Commands
  PROVE  Sounding'
  <1> USE DEF driverVars, playVars, ttsVars
  <1>1. /\ TypeOK /\ "main" \in Tasks \ {"play"} /\ Stack(at["main"])
        /\ "main" \in {"main"} \cup Recorders /\ <<>> \in Nexts
    BY DEF Kept, Ordered, Tasks, Nexts
  <1>2. CASE StartConversation
    <2>1. /\ ~Busy("main") /\ ~active
          /\ UNCHANGED <<ports, icfg, dac, tx, run, valid, prevMode>>
      BY <1>2 DEF StartConversation, Free
    <2>2. PICK y \in Nexts : /\ todo' = [todo EXCEPT !["main"] = Before \o y]
                             /\ y # <<>> => MayTakeOutput
      BY <1>2 DEF StartConversation, Nexts
    <2>3. y # <<>> => ~NotYetPlayed
      BY <2>2 DEF MayTakeOutput
    <2>4. y \in Seq(Steps) /\ y = <<>> \o y
      BY NextSteps, ConcatEmptySeq
    <2>5. PICK a \in {"downFirst", "pause", "none"} :
            /\ Before \o y = ToGo(a, y) /\ (a = "pause" => y # <<>>)
      <3>1. CASE bt.on
        BY <3>1, BluetoothLeads DEF Before
      <3>2. CASE ~bt.on /\ y = <<>>
        BY <2>4, <3>2 DEF Before, ToGo
      <3>3. CASE ~bt.on /\ y # <<>>
        BY <2>4, <3>3, NextSteps DEF Before
      <3>4. QED
        BY <3>1, <3>2, <3>3
    <2>6. (\A h \in Range(ToGo(a, y)) : h.op # "run") \/ ~NotYetPlayed
      <3>1. CASE y # <<>>
        BY <2>3, <3>1
      <3>2. CASE y = <<>>
        BY <2>5, <3>2, MutePlaces
      <3>3. QED
        BY <3>1, <3>2
    <2>7. a \in Places \ {"resume", "regain", "return"}
      BY DEF Places, Talking, Stopping, Refusing
    <2>8. todo' = [todo EXCEPT !["main"] = ToGo(a, y)]
      BY <2>2, <2>5
    <2>9. QED
      BY <1>1, <2>1, <2>6, <2>7, <2>8, PlaceBegins
  <1>3. CASE EndConversation
    <2>1. /\ ~Busy("main") /\ active /\ MayBegin("main")
          /\ todo' = [todo EXCEPT !["main"] = StopConversation]
          /\ UNCHANGED <<ports, icfg, dac, tx, run, valid, prevMode>>
      BY <1>3 DEF EndConversation, Free
    <2>2. PICK s : s = StopConversation
      OBVIOUS
    <2>3. todo' = [todo EXCEPT !["main"] = s]
      BY <2>1, <2>2
    <2>4. QED
      BY <1>1, <2>1, <2>2, <2>3, StopSounds
  <1>n. PICK y \in Nexts : y = <<>>
    BY <1>1
  <1>4. CASE StartBluetooth
    <2>1. /\ ~Busy("main") /\ todo' = [todo EXCEPT !["main"] = << Simple("bring") >>]
          /\ UNCHANGED <<ports, icfg, dac, tx, run, valid, prevMode>>
      BY <1>4 DEF StartBluetooth, Free
    <2>2. ToGo("bring", y) = << Simple("bring") >>
      <3>1. << Simple("bring") >> \in Seq(Steps)
        BY ControlSequences
      <3>2. << Simple("bring") >> \o <<>> = << Simple("bring") >>
        BY <3>1, ConcatEmptySeq
      <3>3. QED
        BY <3>2 DEF ToGo
    <2>3. /\ "bring" \in Places \ {"resume", "regain", "return"}
          /\ "bring" \in Starting \cup {"none", "downFirst"}
      BY DEF Places, Starting
    <2>4. PICK a : a = "bring"
      OBVIOUS
    <2>5. todo' = [todo EXCEPT !["main"] = ToGo(a, y)]
      BY <2>1, <2>2, <2>4
    <2>6. a \in Places \ {"resume", "regain", "return"}
      BY <2>3, <2>4
    <2>7. (\A h \in Range(ToGo(a, y)) : h.op # "run") \/ ~NotYetPlayed
      BY <1>n, <2>3, <2>4, MutePlaces
    <2>8. QED
      BY <1>1, <2>1, <2>5, <2>6, <2>7, PlaceBegins
  <1>5. CASE StopMusic
    <2>1. /\ ~Busy("main") /\ todo' = [todo EXCEPT !["main"] = StopBluetooth]
          /\ UNCHANGED <<ports, icfg, dac, tx, run, valid, prevMode>>
      BY <1>5 DEF StopMusic, Free
    <2>2. ToGo("downFirst", y) = StopBluetooth
      <3>1. StopBluetooth \o <<>> = ToGo("downFirst", y)
        BY <1>n, BluetoothLeads
      <3>2. StopBluetooth \o <<>> = StopBluetooth
        BY StopBluetoothType, ConcatEmptySeq
      <3>3. QED
        BY <3>1, <3>2
    <2>3. /\ "downFirst" \in Places \ {"resume", "regain", "return"}
          /\ "downFirst" \in Starting \cup {"none", "downFirst"}
      BY DEF Places, Stopping
    <2>4. PICK a : a = "downFirst"
      OBVIOUS
    <2>5. todo' = [todo EXCEPT !["main"] = ToGo(a, y)]
      BY <2>1, <2>2, <2>4
    <2>6. a \in Places \ {"resume", "regain", "return"}
      BY <2>3, <2>4
    <2>7. (\A h \in Range(ToGo(a, y)) : h.op # "run") \/ ~NotYetPlayed
      BY <1>n, <2>3, <2>4, MutePlaces
    <2>8. QED
      BY <1>1, <2>1, <2>5, <2>6, <2>7, PlaceBegins
  <1>6. CASE Announce
    <2>1. /\ ~Busy("main") /\ todo' = [todo EXCEPT !["main"] = Speak]
          /\ UNCHANGED <<ports, icfg, dac, tx, run, valid, prevMode>> /\ Speak \in Seq(CalmStep)
      BY <1>6, CalmSequences DEF Announce, Free
    <2>2. QED
      BY <1>1, <2>1, SpeechBegins
  <1>7. QED
    BY <1>2, <1>3, <1>4, <1>5, <1>6 DEF Commands

\* The stack came up, or the stages that did are taken down.
LEMMA BroughtSounds ==
  ASSUME SoundAssumption, NEW at, NEW x, Kept(at, x), NEW t, NEW d, NEW r, NEW c,
         Driven(t, d, r, c), valid, Brought
  PROVE  Sounding'
  <1> USE DEF driverVars, playVars, ttsVars
  <1>1. /\ At("main", "bring") /\ "bring" \in ControlOps
        /\ UNCHANGED <<ports, icfg, dac, tx, run, valid, prevMode>>
    BY DEF Brought, ControlOps
  <1>2. /\ Head(todo["main"]) = First1(at["main"]) /\ First1(at["main"]).op = "bring"
        /\ at["main"] \in Starting \cup Stopping /\ Tail(todo["main"]) = Rest1(at["main"], x)
        /\ TypeOK /\ x \in Nexts /\ "main" \in Tasks \ {"play"}
    BY <1>1, MainAt DEF Tasks
  <1>3. at["main"] = "bring" /\ Tail(todo["main"]) = <<>>
    <2>1. at["main"] \in Places \ {"none"}
      BY <1>2 DEF Places, Starting, Stopping
    <2>2. at["main"] = "bring"
      BY <1>2, <2>1, StepsOfPlaces
    <2>3. QED
      BY <1>2, <2>2 DEF Rest1
  <1>4. Head(todo["main"]) \in ControlStep
    <2>1. at["main"] \in Places \ {"none"}
      BY <1>2 DEF Places, Starting, Stopping
    <2>2. QED
      BY <1>2, <2>1, First1Type
  <1>5. PICK a \in {"on", "failFirst"} : Continue("main", ToGo(a, x))
    <2>1. PICK n \in 0 .. Len(Stages) :
            Continue("main", IF n = Len(Stages) THEN << Simple("on") >> \o Say
                             ELSE TakeDown \o << Simple("notOn") >> \o Say)
      BY DEF Brought
    <2>2. QED
      BY <1>2, <2>1, BluetoothLeads
  <1>6. a \in Places \ {"resume", "regain", "return"} /\ a \in Starting \cup {"none", "downFirst"}
    BY DEF Places, Starting
  <1>7. PICK s : s = ToGo(a, x)
    OBVIOUS
  <1>8. s \in Seq(Steps) /\ s \o <<>> = s
    BY <1>2, <1>6, <1>7, ToGoType, ConcatEmptySeq
  <1>9. todo' = [todo EXCEPT !["main"] = ToGo(a, x)]
    BY <1>3, <1>5, <1>7, <1>8 DEF Continue
  <1>10. \A h \in Range(ToGo(a, x)) : h.op # "run"
    BY <1>2, <1>6, MutePlaces
  <1>11. QED
    BY <1>1, <1>2, <1>4, <1>6, <1>9, <1>10, PlaceBegins

\* The other steps of Bluetooth.
LEMMA StackSounds ==
  ASSUME SoundAssumption, ~Overlapping, NEW at, NEW x, Kept(at, x), NEW t, NEW d, NEW r, NEW c,
         Driven(t, d, r, c), valid, BluetoothStep \/ Lend \/ Started
  PROVE  Sounding'
  <1> USE DEF driverVars, playVars, ttsVars
  <1>1. /\ {"down", "on", "notOn", "notStarted", "off", "started"}
              \subseteq ControlOps \ {"takeOutput"}
        /\ {"main", "radio"} \subseteq Tasks
    BY DEF ControlOps, Tasks
  <1>2. CASE TakenDown \/ TurnedOn \/ NotStarted \/ TurnedOff
    <2>1. /\ Done("main") /\ UNCHANGED <<ports, icfg, dac, tx, run, valid, prevMode>>
          /\ \E op \in {"down", "on", "notOn", "notStarted", "off"} : At("main", op)
      BY <1>2 DEF TakenDown, TurnedOn, NotStarted, TurnedOff
    <2>2. QED
      BY <1>1, <2>1, ControlSounds
  <1>3. CASE Started
    <2>1. /\ Done("radio") /\ UNCHANGED <<ports, icfg, dac, tx, run, valid, prevMode>>
          /\ At("radio", "started")
      BY <1>3 DEF Started
    <2>2. QED
      BY <1>1, <2>1, ControlSounds
  <1>4. QED
    BY <1>2, <1>3, BroughtSounds, HandBackSounds, LendSounds DEF BluetoothStep

\* What the phone does.
LEMMA PhoneSounds ==
  ASSUME SoundAssumption, ~Early, NEW at, NEW x, Kept(at, x), NEW t, NEW d, NEW r, NEW c,
         Driven(t, d, r, c), valid, Phone
  PROVE  Sounding'
  <1> USE DEF driverVars, playVars, ttsVars
  <1>1. TypeOK /\ "radio" \in Tasks \ {"play"} /\ <<>> \in Nexts
    BY DEF Kept, Tasks, Nexts
  <1>2. /\ UNCHANGED <<ports, icfg, dac, tx, run, valid, prevMode>> /\ ~Busy("radio")
    BY DEF Phone, LinkUp, LinkDown, MusicStarts, MusicStops, Listening, Free
  <1>3. CASE LinkDown \/ MusicStops
    <2>1. todo' = todo
      BY <1>3 DEF LinkDown, MusicStops
    <2>2. QED
      BY <1>2, <2>1, NothingSounds
  <1>4. CASE LinkUp
    <2>1. todo' = [todo EXCEPT !["radio"] = Say] /\ Say \in Seq(CalmStep)
      BY <1>4, CalmSequences DEF LinkUp
    <2>2. QED
      BY <1>1, <1>2, <2>1, SpeechBegins
  <1>5. CASE MusicStarts /\ bt.started
    <2>1. todo' = [todo EXCEPT !["radio"] = <<>>] /\ <<>> \in Seq(CalmStep)
      BY <1>5, CalmSequences DEF MusicStarts
    <2>2. QED
      BY <1>1, <1>2, <2>1, SpeechBegins
  <1>6. CASE MusicStarts /\ ~bt.started
    <2>1. /\ todo' = [todo EXCEPT !["radio"] = << [op |-> "run", v |-> FALSE], Simple("lend") >>]
          /\ MayTakeOutput
      BY <1>6 DEF MusicStarts
    <2>2. << [op |-> "run", v |-> FALSE], Simple("lend") >> = ToGo("hush", <<>>)
      <3>1. << Simple("lend") >> \in Seq(Steps)
        BY ControlSequences
      <3>2. << Simple("lend") >> \o <<>> = << Simple("lend") >>
        BY <3>1, ConcatEmptySeq
      <3>3. << Sets("run", FALSE), Simple("lend") >>
               = << Sets("run", FALSE) >> \o << Simple("lend") >>
        BY TwoSteps
      <3>4. QED
        BY <3>2, <3>3 DEF ToGo, Sets
    <2>3. ~NotYetPlayed
      BY <2>1 DEF MayTakeOutput
    <2>4. "hush" \in Places \ {"resume", "regain", "return"}
      BY DEF Places, Lending
    <2>5. todo' = [todo EXCEPT !["radio"] = ToGo("hush", <<>>)]
      BY <2>1, <2>2
    <2>6. QED
      BY <1>1, <1>2, <2>3, <2>4, <2>5, PlaceBegins
  <1>7. QED
    BY <1>3, <1>4, <1>5, <1>6 DEF Phone

\* The play task takes a clip; for the first one it installs the driver.
LEMMA TakeClipSounds ==
  ASSUME NEW t, NEW d, NEW r, NEW c, Driven(t, d, r, c), TypeOK, valid, TakeClip
  PROVE  Sounding'
  <1> USE DEF driverVars, playVars, ttsVars
  <1>1. /\ ~Busy("play") /\ "play" \in Tasks /\ DOMAIN todo = Tasks
        /\ UNCHANGED <<ports, icfg, dac, tx, run, valid>> /\ prevMode' = "I2S_DAC"
    BY DEF TakeClip, Free, Tasks, TypeOK
  <1>2. /\ Fronts(t, d, r) /\ Claims(d, c) /\ c \in Configs /\ Working(d, c) /\ tx = None
        /\ ~ports["port1"]
    BY DEF Driven
  <1> DEFINE g == << Simple("write") >>
  <1>3. /\ g \in Seq(CalmStep) /\ g \in Seq(PlainStep) /\ g \in Seq(Steps)
        /\ Range(g) = {Simple("write")}
    BY CalmSequences, CalmIsPlain, RangeOfOne
  <1>4. CASE prevMode = "I2S_DAC"
    <2>1. todo' = [todo EXCEPT !["play"] = <<>> \o g]
      BY <1>4 DEF TakeClip
    <2> HIDE DEF g
    <2>2. <<>> \o g = g /\ g \o <<>> = g
      BY <1>3, ConcatEmptySeq
    <2>3. Still(g)
      <3>1. <<>> \in Rests
        BY EmptySeq DEF Rests
      <3>2. Still(g \o <<>>)
        BY <1>3, <3>1, StillAt
      <3>3. QED
        BY <2>2, <3>2
    <2>4. todo' = [todo EXCEPT !["play"] = g]
      BY <2>1, <2>2
    <2>5. PICK q : Fronts(t, d, q)'
      BY <1>1, <1>2, <2>3, <2>4, FrontsMove
    <2>6. \A h \in Range(g) : h # Sets("run", TRUE) /\ h.op = "write"
      BY <1>3 DEF Simple, Sets
    <2>7. QED
      BY <1>1, <1>4, <2>4, <2>5, <2>6, Onward
  <1>5. CASE prevMode # "I2S_DAC"
    <2> DEFINE w == Install(Speech, "I2S_DAC")
    <2>1. todo' = [todo EXCEPT !["play"] = w \o g]
      BY <1>5 DEF TakeClip
    <2>2. prevMode = None /\ d = <<>> /\ dac = None /\ NotYetPlayed /\ run /\ Unpausing
      <3>1. prevMode = None /\ d = <<>> /\ dac = None
        BY <1>2, <1>5 DEF Claims
      <3>2. NotYetPlayed
        BY <3>1 DEF NotYetPlayed
      <3>3. QED
        BY <1>2, <3>1, <3>2 DEF Claims
    <2>3. Speech \in Configs /\ "I2S_DAC" \in Modes /\ "I2S_DAC" \in Inner
      BY DEF Configs, Modes, Inner
    <2>4. w \in Seq(PlainStep) /\ w \in Seq(Steps) /\ w # <<>> /\ Head(w).op \in DriverOps
      <3>1. /\ w \in Seq(PlainStep) /\ w # <<>>
            /\ Head(w) = [op |-> "setup", c |-> Speech, m |-> "I2S_DAC"]
        BY <2>3, Jobs
      <3>2. Head(w).op = "setup"
        BY <3>1
      <3>3. QED
        BY <3>1, <3>2, PlainIsStep DEF DriverOps
    <2>5. PICK s : s = w \o g
      OBVIOUS
    <2>6. Range(s) \subseteq PlainStep /\ s \in Seq(Steps)
      <3> HIDE DEF w, g
      <3>1. s \in Seq(PlainStep)
        BY <1>3, <2>4, <2>5, ConcatProperties
      <3>2. QED
        BY <3>1, RangeOfPlain, PlainIsStep
    <2>7. Drives(s, w, <<>>) /\ <<>> \in Rests
      <3> HIDE DEF w, g
      <3>1. g \o <<>> = g /\ <<>> \o s = s
        BY <1>3, <2>6, ConcatEmptySeq
      <3>2. s = <<>> \o (w \o (g \o <<>>))
        BY <2>5, <3>1
      <3>3. <<>> \in Seq(CalmStep)
        BY CalmIsPlain
      <3>4. Drives(s, w, <<>>)
        BY <1>3, <3>2, <3>3 DEF Drives
      <3>5. QED
        BY <3>4, EmptySeq DEF Rests
    <2>8. PICK q \in Rests : q = <<>> /\ Drives(s, w, q)
      BY <2>7
    <2>9. Fronts("play", w, q)'
      <3> HIDE DEF w, g
      <3>1. todo' = [todo EXCEPT !["play"] = s]
        BY <2>1, <2>5
      <3>2. Fronts(t, <<>>, r)
        BY <1>2, <2>2
      <3>3. QED
        BY <1>1, <2>4, <2>8, <3>1, <3>2, FrontsBegin
    <2>10. Working(w, Speech)'
      <3>1. Ready
        BY <1>2, <2>2, WorkingNothing
      <3>2. Gone'
        BY <1>1, <2>2, <3>1 DEF Ready, Gone
      <3>3. QED
        BY <2>3, <3>2 DEF Working
    <2>11. Unpausing'
      <3> HIDE DEF w, g
      <3>1. \A v \in Tasks : todo'[v] = IF v = "play" THEN s ELSE todo[v]
        BY <1>1, <2>1, <2>5
      <3>2. \A h \in Range(s) : h.op # "run"
        BY <2>6, StepOps DEF PlainOps
      <3>3. ASSUME NEW v \in Tasks, NEW h \in Range(todo'[v]) PROVE h.op # "run"
        BY <2>2, <3>1, <3>2, <3>3 DEF Unpausing
      <3>4. QED
        BY <3>3 DEF Unpausing
    <2>12. Claims(w, Speech)'
      BY <1>1, <2>2, <2>11 DEF Claims, None
    <2> HIDE DEF w
    <2>13. Driven("play", w, q, Speech)'
      BY <1>1, <1>2, <2>3, <2>9, <2>10, <2>12 DEF Driven
    <2>14. QED
      BY <2>13 DEF Sounding
  <1>6. QED
    BY <1>4, <1>5

-----------------------------------------------------------------------------
(* Every step.                                                               *)

LEMMA DriverSounds ==
  ASSUME SoundAssumption, NEW at, NEW x, Kept(at, x), NEW t, NEW d, NEW r, NEW c,
         Driven(t, d, r, c), valid, NEW u \in Tasks, DriverStep(u)
  PROVE  Sounding'
  <1>1. TypeOK
    BY DEF Kept
  <1>2. QED
    BY <1>1, SetupSounds, PinsSounds, PortSounds, UninstallSounds, QuietTurns DEF DriverStep

LEMMA TalkSounds ==
  ASSUME SoundAssumption, ~Overlapping, NEW at, NEW x, Kept(at, x), NEW t, NEW d, NEW r, NEW c,
         Driven(t, d, r, c), valid, NEW u \in Tasks \ {"play"},
         ConversationStep(u) \/ SpeechStep(u)
  PROVE  Sounding'
  <1> USE DEF driverVars, playVars, ttsVars
  <1>1. CASE SetActive(u) \/ SetSocket(u)
    <2>1. {"active", "socket"} \subseteq ControlOps \ {"takeOutput"}
      BY DEF ControlOps
    <2>2. /\ Done(u) /\ UNCHANGED <<ports, icfg, dac, tx, run, valid, prevMode>>
          /\ At(u, "active") \/ At(u, "socket")
      BY <1>1 DEF SetActive, SetSocket
    <2>3. QED
      BY <2>1, <2>2, ControlSounds
  <1>2. CASE StopRecorder(u) \/ StartRecorder(u) \/ SpeakWords(u) \/ QueueClip(u)
    BY <1>2, QuietTurns
  <1>3. CASE TakeOutput(u) \/ SetRun(u)
    BY <1>3, TakeSounds, RunSounds
  <1>4. QED
    BY <1>1, <1>2, <1>3 DEF ConversationStep, SpeechStep

LEMMA RecorderSounds ==
  ASSUME SoundAssumption, ~Overlapping, NEW at, NEW x, Kept(at, x), NEW t, NEW d, NEW r, NEW c,
         Driven(t, d, r, c), valid, NEW u \in Recorders, Recorder(u) \/ RecordEnded(u)
  PROVE  Sounding'
  <1> USE DEF driverVars, playVars, ttsVars
  <1>1. u \in Tasks /\ u # "play" /\ u # "radio" /\ u \in {"main"} \cup Recorders
    BY DEF Tasks, SoundAssumption
  <1>2. CASE RecordEnds(u)
    <2>1. UNCHANGED <<todo, ports, icfg, dac, tx, run, valid, prevMode>>
      BY <1>2 DEF RecordEnds
    <2>2. QED
      BY <2>1, NothingSounds
  <1>3. CASE RecordRefused(u)
    <2>1. /\ ~Busy(u) /\ active /\ MayBegin(u)
          /\ todo' = [todo EXCEPT ![u] = StopConversation \o Ended]
          /\ UNCHANGED <<ports, icfg, dac, tx, run, valid, prevMode>>
      BY <1>3 DEF RecordRefused, Free, Ended
    <2>2. PICK s : s = StopConversation \o Ended
      OBVIOUS
    <2>3. todo' = [todo EXCEPT ![u] = s]
      BY <2>1, <2>2
    <2>4. QED
      BY <1>1, <2>1, <2>2, <2>3, StopSounds
  <1>4. QED
    BY <1>1, <1>2, <1>3, QuietTurns DEF Recorder

LEMMA StepSounds ==
  ASSUME SoundAssumption, ~Overlapping, ~Early, IInv, Sounding, [Next]_vars
  PROVE  Sounding'
  <1>1. PICK at, x : Kept(at, x)
    BY DEF IInv, Kept
  <1>2. valid' = valid
    BY DEF Next, Commands, StartConversation, EndConversation, StartBluetooth, StopMusic, Announce,
           Step, Shared, DriverStep, Setup, Pins, SetPort, Uninstall, SetMode, SpeechStep,
           SpeakWords, QueueClip, SetRun, ConversationStep, StopRecorder, StartRecorder,
           SetActive, SetSocket,
           TakeOutput, BluetoothStep, Brought, TakenDown, TurnedOn, HandBack, NotStarted, TurnedOff,
           Lend, Started, RecordEnded, Recorder, RecordEnds, RecordRefused, Phone, LinkUp, LinkDown,
           MusicStarts, MusicStops, PlayTask, TakeClip, WriteClip, ClipWritten, vars, ttsVars
  <1>3. SUFFICES ASSUME valid PROVE Sounding'
    BY <1>2 DEF Sounding
  <1>4. PICK t, d, r, c : Driven(t, d, r, c)
    BY <1>3 DEF Sounding
  <1>5. CASE Commands
    BY <1>1, <1>3, <1>4, <1>5, CommandSounds
  <1>6. ASSUME NEW u \in Tasks \ {"play"}, Step(u) PROVE Sounding'
    <2>1. CASE Shared(u)
      BY <1>1, <1>3, <1>4, <2>1, DriverSounds, TalkSounds DEF Shared
    <2>2. CASE BluetoothStep \/ Lend \/ Started
      BY <1>1, <1>3, <1>4, <2>2, StackSounds
    <2>3. CASE u \in Recorders /\ RecordEnded(u)
      BY <1>1, <1>3, <1>4, <2>3, RecorderSounds
    <2>4. QED
      BY <1>6, <2>1, <2>2, <2>3 DEF Step
  <1>7. ASSUME NEW u \in Recorders, Recorder(u) PROVE Sounding'
    BY <1>1, <1>3, <1>4, <1>7, RecorderSounds
  <1>8. CASE Phone
    BY <1>1, <1>3, <1>4, <1>8, PhoneSounds
  <1>9. CASE PlayTask
    <2>1. "play" \in Tasks /\ TypeOK
      BY <1>1 DEF Tasks, Kept
    <2>2. QED
      BY <1>1, <1>3, <1>4, <1>9, <2>1, TakeClipSounds, QuietTurns, DriverSounds DEF PlayTask
  <1>10. CASE UNCHANGED vars
    <2>1. UNCHANGED <<todo, ports, icfg, dac, tx, run, valid, prevMode>>
      BY <1>10 DEF vars, driverVars, playVars, ttsVars
    <2>2. QED
      BY <1>4, <2>1, NothingSounds
  <1>11. QED
    BY <1>5, <1>6, <1>7, <1>8, <1>9, <1>10 DEF Next

LEMMA InitSounds == ASSUME Init PROVE Sounding
  <1>1. SUFFICES ASSUME valid PROVE Driven("main", <<>>, <<>>, Bad)
    BY DEF Sounding
  <1>2. \A u \in Tasks : todo[u] = <<>>
    BY DEF Init, Idle
  <1>3. <<>> \in Rests /\ <<>> \in Seq(PlainStep) /\ <<>> \in Seq(CalmStep)
    BY EmptySeq, PlainSequences, CalmIsPlain DEF Rests
  <1>4. Drives(<<>>, <<>>, <<>>) /\ Still(<<>>)
    <2>1. <<>> = <<>> \o (<<>> \o (<<>> \o <<>>))
      BY <1>3, ConcatEmptySeq
    <2>2. Drives(<<>>, <<>>, <<>>)
      BY <1>3, <2>1 DEF Drives
    <2>3. QED
      BY <1>3, <2>2 DEF Still
  <1>5. Fronts("main", <<>>, <<>>)
    BY <1>2, <1>3, <1>4 DEF Fronts, Tasks
  <1>6. Unpausing /\ ~Returning
    BY <1>2, RangeOfOne DEF Unpausing, Returning
  <1>7. Claims(<<>>, Bad)
    BY <1>1, <1>6 DEF Claims, Init
  <1>8. Working(<<>>, Bad)
    BY DEF Working, Ready, Init, Unset, Ports, Bad, Speech, None
  <1>9. QED
    BY <1>5, <1>7, <1>8 DEF Driven, Configs, Init, Ports

-----------------------------------------------------------------------------
(* The numbers.                                                              *)

LEMMA PlacesOfNumber ==
  ASSUME NEW d \in 0 .. 100
  PROVE  \E h \in 0 .. 1, t \in 0 .. 9, u \in 0 .. 9 :
            /\ h = d \div 100 /\ t = (d \div 10) % 10 /\ u = d % 10
            /\ d = 100 * h + 10 * t + u
  <1>1. PICK q \in 0 .. 10, u \in 0 .. 9 : d = 10 * q + u
    OBVIOUS
  <1>2. d \div 10 = q /\ d % 10 = u
    BY <1>1
  <1>3. CASE q = 10
    <2>1. d = 100 /\ u = 0
      BY <1>1, <1>3
    <2>2. d \div 100 = 1 /\ q % 10 = 0
      BY <1>3, <2>1
    <2>3. QED
      BY <1>2, <2>1, <2>2
  <1>4. CASE q # 10
    <2>1. d < 100 /\ q \in 0 .. 9
      BY <1>1, <1>4
    <2>2. d \div 100 = 0 /\ q % 10 = q
      BY <2>1
    <2>3. QED
      BY <1>1, <1>2, <2>1, <2>2
  <1>5. QED
    BY <1>3, <1>4

\* A number is one clip, or two: the last one is followed by half a second.
Whole(s, d) ==
  /\ Len(s) \in 1 .. 4 /\ ValueOf(s) = d
  /\ \A i \in DOMAIN s : s[i].delay = 500 <=> i = Len(s)

LEMMA ClipParts ==
  ASSUME NEW n \in Nat, NEW p \in Nat
  PROVE  /\ Clip(Number(n), p).say = Number(n) /\ Clip(Number(n), p).delay = p
         /\ IsNumber(Number(n)) /\ Number(n)[2] = n
  BY DEF Clip, Number, IsNumber

LEMMA OneClip ==
  ASSUME NEW d \in Nat, Number(d) \in EveryNumber, Digits(d) = << Clip(Number(d), 500) >>
  PROVE  Whole(Spelled(d, EveryNumber), d)
  <1>1. PICK k : k = Clip(Number(d), 500)
    OBVIOUS
  <1>2. k.say = Number(d) /\ k.delay = 500 /\ IsNumber(k.say) /\ k.say[2] = d
    BY <1>1, ClipParts
  <1>3. Digits(d) = << k >>
    BY <1>1
  <1>4. PICK s : s = << k >>
    OBVIOUS
  <1>5. DOMAIN s = {1} /\ Len(s) = 1 /\ s[1] = k
    BY <1>4
  <1>6. Spelled(d, EveryNumber) = s
    BY <1>2, <1>3, <1>4, <1>5 DEF Spelled, UpToMissing
  <1>7. WorthOf(s, 1) = d /\ WorthOf(s, 2) = 0 /\ WorthOf(s, 3) = 0 /\ WorthOf(s, 4) = 0
    BY <1>2, <1>5 DEF WorthOf
  <1>8. Whole(s, d)
    BY <1>2, <1>5, <1>7 DEF Whole, ValueOf
  <1>9. QED
    BY <1>6, <1>8

LEMMA TwoClips ==
  ASSUME NEW d \in Nat, NEW a \in Nat, NEW b \in Nat, d = a + b,
         Number(a) \in EveryNumber, Number(b) \in EveryNumber,
         Digits(d) = << Clip(Number(a), 0) >> \o << Clip(Number(b), 500) >>
  PROVE  Whole(Spelled(d, EveryNumber), d)
  <1>1. PICK j, k : j = Clip(Number(a), 0) /\ k = Clip(Number(b), 500)
    OBVIOUS
  <1>2. /\ j.say = Number(a) /\ j.delay = 0 /\ IsNumber(j.say) /\ j.say[2] = a
        /\ k.say = Number(b) /\ k.delay = 500 /\ IsNumber(k.say) /\ k.say[2] = b
    BY <1>1, ClipParts
  <1>3. PICK s : s = << j, k >>
    OBVIOUS
  <1>4. DOMAIN s = {1, 2} /\ Len(s) = 2 /\ s[1] = j /\ s[2] = k
    BY <1>3
  <1>5. Digits(d) = s
    BY <1>1, <1>3, TwoSteps
  <1>6. Spelled(d, EveryNumber) = s
    BY <1>2, <1>4, <1>5 DEF Spelled, UpToMissing
  <1>7. WorthOf(s, 1) = a /\ WorthOf(s, 2) = b /\ WorthOf(s, 3) = 0 /\ WorthOf(s, 4) = 0
    BY <1>2, <1>4 DEF WorthOf
  <1>8. Whole(s, d)
    BY <1>2, <1>4, <1>7 DEF Whole, ValueOf
  <1>9. QED
    BY <1>6, <1>8

LEMMA NumberWhole == ASSUME NEW d \in 0 .. 100 PROVE Whole(Spelled(d, EveryNumber), d)
  <1>1. PICK h \in 0 .. 1, t \in 0 .. 9, u \in 0 .. 9 :
          /\ h = d \div 100 /\ t = (d \div 10) % 10 /\ u = d % 10 /\ d = 100 * h + 10 * t + u
    BY PlacesOfNumber
  <1> DEFINE Pause(last) == IF last THEN 500 ELSE 0
             p1 == If(h > 0, Clip(Number(100 * h), Pause(t = 0 /\ u = 0)))
             p2 == If(h > 0 /\ (t > 0 \/ u > 0), Clip(Text("and"), 0))
             p3 == If(t = 1, Clip(Number(10 + u), 500))
             p4 == If(t > 1, Clip(Number(10 * t), Pause(u = 0)))
             p5 == If(t # 1 /\ (u > 0 \/ (h = 0 /\ t = 0)), Clip(Number(u), 500))
  <1>2. Digits(d) = p1 \o p2 \o p3 \o p4 \o p5
    BY <1>1 DEF Digits
  <1>3. /\ \A n \in 0 .. 19 : Number(n) \in EveryNumber
        /\ \A n \in 2 .. 9 : Number(10 * n) \in EveryNumber
        /\ Number(100) \in EveryNumber
    BY DEF EveryNumber
  <1>4. p2 = <<>>
    BY <1>1 DEF If
  <1>5. CASE h = 1
    <2>1. t = 0 /\ u = 0 /\ d = 100
      BY <1>1, <1>5
    <2>2. p1 = << Clip(Number(100), 500) >> /\ p3 = <<>> /\ p4 = <<>> /\ p5 = <<>>
      BY <1>5, <2>1 DEF If
    <2> HIDE DEF p1, p2, p3, p4, p5
    <2>3. Digits(d) = << Clip(Number(d), 500) >>
      BY <1>2, <1>4, <2>1, <2>2
    <2>4. QED
      BY <1>3, <2>1, <2>3, OneClip
  <1>6. CASE h = 0 /\ t = 0
    <2>1. d = u
      BY <1>1, <1>6
    <2>2. p1 = <<>> /\ p3 = <<>> /\ p4 = <<>> /\ p5 = << Clip(Number(u), 500) >>
      BY <1>6 DEF If
    <2> HIDE DEF p1, p2, p3, p4, p5
    <2>3. Digits(d) = << Clip(Number(d), 500) >>
      BY <1>2, <1>4, <2>1, <2>2
    <2>4. QED
      BY <1>3, <2>1, <2>3, OneClip
  <1>7. CASE h = 0 /\ t = 1
    <2>1. d = 10 + u /\ d \in 0 .. 19
      BY <1>1, <1>7
    <2>2. p1 = <<>> /\ p3 = << Clip(Number(10 + u), 500) >> /\ p4 = <<>> /\ p5 = <<>>
      BY <1>7 DEF If
    <2> HIDE DEF p1, p2, p3, p4, p5
    <2>3. Digits(d) = << Clip(Number(d), 500) >>
      BY <1>2, <1>4, <2>1, <2>2
    <2>4. QED
      BY <1>3, <2>1, <2>3, OneClip
  <1>8. CASE h = 0 /\ t > 1 /\ u = 0
    <2>1. d = 10 * t /\ t \in 2 .. 9
      BY <1>1, <1>8
    <2>2. p1 = <<>> /\ p3 = <<>> /\ p4 = << Clip(Number(10 * t), 500) >> /\ p5 = <<>>
      BY <1>8 DEF If
    <2> HIDE DEF p1, p2, p3, p4, p5
    <2>3. Digits(d) = << Clip(Number(d), 500) >>
      BY <1>2, <1>4, <2>1, <2>2
    <2>4. QED
      BY <1>3, <2>1, <2>3, OneClip
  <1>9. CASE h = 0 /\ t > 1 /\ u > 0
    <2>1. d = 10 * t + u /\ t \in 2 .. 9 /\ 10 * t \in Nat
      BY <1>1, <1>9
    <2>2. /\ p1 = <<>> /\ p3 = <<>> /\ p4 = << Clip(Number(10 * t), 0) >>
          /\ p5 = << Clip(Number(u), 500) >>
      BY <1>9 DEF If
    <2> HIDE DEF p1, p2, p3, p4, p5
    <2>3. Digits(d) = << Clip(Number(10 * t), 0) >> \o << Clip(Number(u), 500) >>
      BY <1>2, <1>4, <2>2
    <2>4. QED
      BY <1>3, <2>1, <2>3, TwoClips
  <1>10. QED
    BY <1>5, <1>6, <1>7, <1>8, <1>9

-----------------------------------------------------------------------------
(* The theorems.                                                             *)

LEMMA InitInv == ASSUME SoundAssumption, Init PROVE IInv
  <1> DEFINE at == [t \in Tasks |-> "none"]
  <1>1. /\ {"main", "radio", "play"} \subseteq Tasks /\ Recorders \subseteq Tasks
        /\ "none" \in MainPlaces /\ "none" \in Places /\ <<>> \in Nexts
    BY DEF Tasks, Places, MainPlaces, Refusing, Lending, Nexts
  <1>2. TypeOK
    <2>1. {"I2S", None} \subseteq Modes /\ QueueLen \in Nat /\ None \in Configs \cup {None}
      BY DEF Modes, SoundAssumption
    <2>2. Unset \in [c : Configs \cup {None}, internal : BOOLEAN, exit : BOOLEAN]
      BY DEF Unset
    <2>3. /\ DOMAIN todo = Tasks /\ recording \subseteq Recorders /\ up \subseteq AllStages
          /\ ports \in [Ports -> BOOLEAN] /\ mode \in Modes /\ prevMode \in Modes
      BY <2>1 DEF Init, Idle
    <2>4. icfg \in [c : Configs \cup {None}, internal : BOOLEAN, exit : BOOLEAN]
      BY <2>2 DEF Init
    <2>5. dac = None /\ tx = None /\ queue \in 0 .. QueueLen
      BY <2>1 DEF Init
    <2>6. {writing, run, valid, active, recRun, socket, crashed} \subseteq BOOLEAN
      BY DEF Init
    <2>7. QED
      BY <2>3, <2>4, <2>5, <2>6 DEF TypeOK
  <1>3. bt \in Links
    BY DEF Init, Links, Silence
  <1>4. Placed(at, <<>>)
    <2>1. ToGo("none", <<>>) = <<>>
      BY DEF ToGo
    <2>2. Leads(<<>>, ToGo("none", <<>>))
      BY <2>1, LeadsItself, PlainSequences
    <2>3. \A t \in Tasks : todo[t] = <<>>
      BY DEF Init, Idle
    <2>4. QED
      BY <1>1, <2>2, <2>3 DEF Placed
  <1>5. Talk(at, <<>>)
    <2>1. ~Talks("none", <<>>) /\ "none" \notin Coming \cup Going \cup Stopping
      BY DEF Talks, Talking, Refusing, Stopping, Coming, Going
    <2>2. QED
      BY <2>1 DEF Talk, Told, Init
  <1>6. Stack(at["main"])
    <2>1. StackOff /\ ~bt.on
      BY <1>1 DEF StackOff, Noted, Unheard, Init, Silence, Idle
    <2>2. QED
      BY <1>1, <2>1 DEF Stack, Talking, Starting, Stopping
  <1>7. Owned(at)
    <2>1. ~Held(at)
      BY <1>1 DEF Held, Init, Silence
    <2>2. QED
      BY <2>1 DEF Owned, Owner, Init
  <1>8. Ordered(at, <<>>)
    BY <1>4, <1>5, <1>6, <1>7 DEF Ordered
  <1>9. QED
    BY <1>2, <1>3, <1>8 DEF IInv

LEMMA StepInv == ASSUME SoundAssumption, IInv, [Next]_vars PROVE IInv'
  <1>1. PICK at, x : Kept(at, x)
    BY DEF IInv, Kept
  <1>2. SUFFICES \E to, y : Kept(to, y)'
    BY DEF IInv, Kept
  <1>3. CASE Commands
    BY <1>1, <1>3, StartKept, EndKept, SwitchKept, AnnounceKept DEF Commands
  <1>4. ASSUME NEW t \in Tasks, Step(t) PROVE \E to, y : Kept(to, y)'
    <2>1. CASE Shared(t)
      <3>1. CASE DriverStep(t)
        BY <1>1, <3>1, DriverKept
      <3>2. CASE SpeakWords(t) \/ QueueClip(t)
        BY <1>1, <3>2, SpeakKept
      <3>3. CASE ConversationStep(t) \/ SetRun(t)
        <4>1. Kept(at, x)' \/ Kept([at EXCEPT ![t] = After(at[t], x)], x)'
          BY <1>1, <3>3, ConversationKept
        <4>2. PICK c : c = [at EXCEPT ![t] = After(at[t], x)]
          OBVIOUS
        <4>3. Kept(at, x)' \/ Kept(c, x)'
          BY <4>1, <4>2
        <4>4. QED
          BY <4>3
      <3>4. QED
        BY <2>1, <3>1, <3>2, <3>3 DEF Shared, SpeechStep
    <2>2. CASE BluetoothStep
      BY <1>1, <2>2, BroughtKept, TakenDownKept, SwitchedKept, HandBackKept DEF BluetoothStep
    <2>3. CASE Lend \/ Started
      BY <1>1, <2>3, RadioKept
    <2>4. CASE t \in Recorders /\ RecordEnded(t)
      BY <1>1, <2>4, RecorderKept
    <2>5. QED
      BY <1>4, <2>1, <2>2, <2>3, <2>4 DEF Step
  <1>5. ASSUME NEW r \in Recorders, Recorder(r) PROVE \E to, y : Kept(to, y)'
    BY <1>1, <1>5, RecorderKept
  <1>6. CASE Phone
    BY <1>1, <1>6, RadioKept
  <1>7. CASE PlayTask
    BY <1>1, <1>7, PlayKept
  <1>8. CASE UNCHANGED vars
    <2>1. UNCHANGED <<todo, driverVars, playVars, ttsVars, convVars, bt, up, crashed>>
      BY <1>8 DEF vars
    <2>2. TypeOK' /\ bt' \in Links
      BY <1>1, <2>1 DEF Kept, TypeOK, driverVars, playVars, ttsVars, convVars
    <2>3. Placed(at, x)'
      BY <1>1, <2>1 DEF Kept, Ordered, Placed
    <2>4. Talk(at, x)'
      BY <1>1, <2>1 DEF Kept, Ordered, Talk, Told, Talks, convVars
    <2>5. Stack(at["main"])'
      BY <1>1, <2>1 DEF Kept, Ordered, Stack, StackOff, Noted, Unheard, convVars
    <2>6. Owned(at)'
      BY <1>1, <2>1 DEF Kept, Ordered, Owned, Owner, Held, convVars, ttsVars
    <2>7. Kept(at, x)'
      BY <2>2, <2>3, <2>4, <2>5, <2>6 DEF Kept, Ordered
    <2>8. QED
      BY <2>7
  <1>9. QED
    BY <1>3, <1>4, <1>5, <1>6, <1>7, <1>8 DEF Next

LEMMA Invariance == Spec => []IInv
  <1>1. Init => IInv
    BY SoundAssumption, InitInv
  <1>2. IInv /\ [Next]_vars => IInv'
    BY SoundAssumption, StepInv
  <1>3. QED
    BY <1>1, <1>2, PTL DEF Spec

(* A call and music exclude each other, and the Bluetooth stack is up or down   *)
(* as a whole between two commands: whatever the clips, whichever tasks start   *)
(* or stop a conversation at once, however many record tasks are left over,     *)
(* whichever stage of the stack fails, and whether or not a call or music comes *)
(* before the first clip (Bluetooth.cpp:199-349, Conversation.cpp:558-633).     *)
THEOREM CallsExcludeMusic == Spec => [](TypeOK /\ CallExcludesMusic /\ StackIsWhole)
  <1>1. ASSUME IInv PROVE CallExcludesMusic /\ StackIsWhole
    <2>1. PICK at, x : Placed(at, x) /\ Stack(at["main"])
      BY <1>1 DEF IInv, Ordered
    <2>2. "main" \in Tasks /\ at["main"] \in MainPlaces
      BY <2>1 DEF Placed, Tasks
    <2>3. CallExcludesMusic
      <3>1. SUFFICES ASSUME active PROVE StackOff
        BY DEF CallExcludesMusic, StackOff, Noted
      <3>2. at["main"] \in {"none"} \cup Talking
        BY <2>1, <2>2, <3>1 DEF Stack, MainPlaces, Places
      <3>3. QED
        BY <2>1, <3>1, <3>2 DEF Stack
    <2>4. StackIsWhole
      <3>1. SUFFICES ASSUME ~Busy("main")
                     PROVE  IF bt.on THEN up = AllStages
                            ELSE up = {} /\ ~bt.connected /\ ~bt.playing /\ ~bt.started
        BY DEF StackIsWhole
      <3>2. at["main"] = "none"
        BY <2>1, <2>2, <3>1, TaskFree
      <3>3. QED
        BY <2>1, <3>2 DEF Stack, StackOff, Noted
    <2>5. QED
      BY <2>3, <2>4
  <1>2. IInv => TypeOK /\ CallExcludesMusic /\ StackIsWhole
    BY <1>1 DEF IInv
  <1>3. QED
    BY <1>2, Invariance, PTL

(* While no two tasks start or stop a conversation at once, moreover, the       *)
(* socket of a call is there exactly while the call lasts                       *)
(* (Conversation.cpp:558-633).                                                  *)
THEOREM SocketLastsAsCall == ASSUME ~Overlapping PROVE Spec => []CallsAndMusic
  <1>1. ASSUME IInv, Quiet PROVE socket = active
    <2>1. PICK at, x : Placed(at, x) /\ Talk(at, x)
      BY <1>1 DEF IInv, Ordered
    <2>2. \A t \in Tasks : at[t] = "none"
      BY <1>1, <2>1, TaskFree DEF Quiet
    <2>3. ~Talks("none", x)
      BY DEF Talks, Talking, Refusing, Stopping
    <2>4. QED
      BY <2>1, <2>2, <2>3 DEF Talk, Told
  <1>2. IInv => SocketFollowsCall
    BY <1>1 DEF SocketFollowsCall
  <1>3. QED
    BY <1>2, Invariance, CallsExcludeMusic, PTL DEF CallsAndMusic

(* While no two tasks start or stop a conversation at once, the output has one  *)
(* owner: whenever no handler runs, the speech engine is paused exactly if a    *)
(* call or music has the output, whichever of them asked first, and whatever    *)
(* failed between the pause and the hand over (Audio.cpp:218-256,               *)
(* EcclesTTS.cpp:133-256).                                                      *)
THEOREM OutputHasOwner == ASSUME ~Overlapping PROVE Spec => []OutputHasOneOwner
  <1>1. ASSUME IInv, Quiet
        PROVE  (active \/ bt.started => ~run) /\ (run \/ active \/ bt.started \/ ~valid)
    <2>1. PICK at, x : Placed(at, x) /\ Owned(at)
      BY <1>1 DEF IInv, Ordered
    <2>2. \A t \in Tasks : at[t] = "none"
      BY <1>1, <2>1, TaskFree DEF Quiet
    <2>3. "main" \in Tasks /\ "radio" \in Tasks
      BY DEF Tasks
    <2>4. Held(at) <=> active \/ bt.started
      BY <2>2, <2>3 DEF Held
    <2>5. QED
      BY <2>1, <2>4 DEF Owned, Owner
  <1>2. IInv => OutputHasOneOwner
    BY <1>1 DEF OutputHasOneOwner
  <1>3. QED
    BY <1>2, Invariance, PTL

(* And whoever pauses the engine and asks for the output gets one: getOutput is *)
(* null only while the engine runs (EcclesTTS.h:81, EcclesTTS.cpp:133-140), and *)
(* no other task resumes it between the pause of a conversation and its         *)
(* getOutput, also when the stack of Bluetooth was taken down just before.      *)
THEOREM OutputNeverNull == ASSUME ~Overlapping PROVE Spec => []OutputIsThere
  <1>1. IInv => OutputIsThere
    BY DEF IInv, Ordered, Owned, Owner, OutputIsThere
  <1>2. QED
    BY <1>1, Invariance, PTL

(* Every number up to 100 is said whole, with a complete package: its clips add *)
(* up to it, none is missing, and the pause follows the last clip and no other  *)
(* (EcclesTTS.cpp:133-240).                                                     *)
THEOREM NumbersWhole == EveryNumberIsSaid
  BY NumberWhole DEF EveryNumberIsSaid, Whole

LEMMA SoundingLasts == ASSUME ~Overlapping, ~Early PROVE Spec => []Sounding
  <1>1. Init => Sounding
    BY InitSounds
  <1>2. IInv /\ Sounding /\ [Next]_vars => Sounding'
    BY SoundAssumption, StepSounds
  <1>3. QED
    BY <1>1, <1>2, Invariance, PTL DEF Spec

(* While, moreover, no call or music takes the output before the first clip,    *)
(* speech is heard again after every call and all music: once no handler runs   *)
(* and the engine is on, the driver is installed, and set up for the clips,     *)
(* however often it was taken down and set up for others, also with settings it *)
(* does not know, and in whatever order (I2S.cpp:148-257, Audio.cpp:146-256,    *)
(* EcclesTTS.cpp:133-256).                                                      *)
THEOREM SpeechComesBack == ASSUME ~Overlapping, ~Early PROVE Spec => []SpeechIsHeard
  <1>1. ASSUME Sounding, Quiet, valid, run, prevMode # None
        PROVE  ports["port0"] /\ dac = Speech
    <2>1. PICK t, d, r, c : Driven(t, d, r, c)
      BY <1>1 DEF Sounding
    <2>2. /\ Fronts(t, d, r) /\ c \in Configs /\ Claims(d, c) /\ Working(d, c)
      BY <2>1 DEF Driven
    <2>3. d = <<>>
      BY <1>1, <2>2, NotWorking DEF Quiet, Fronts
    <2>4. c = Speech
      BY <1>1, <2>2 DEF Claims
    <2>5. Ready /\ dac = Speech
      BY <2>2, <2>3, <2>4, WorkingNothing
    <2>6. QED
      BY <2>5 DEF Ready, Speech, None
  <1>2. Sounding => SpeechIsHeard
    BY <1>1 DEF SpeechIsHeard
  <1>3. QED
    BY <1>2, SoundingLasts, PTL

(* The one output of the bike, whole: it has one owner, who has it when it is   *)
(* needed, and it goes back to a speech engine that is heard and says every     *)
(* number (Audio.cpp:218-256, EcclesTTS.cpp:133-256).                           *)
THEOREM OutputGoesBack == ASSUME ~Overlapping, ~Early PROVE Spec => []OutputIsHeard
  <1>1. NumbersAreSaid
    BY NumbersWhole DEF NumbersAreSaid
  <1>2. OutputHasOneOwner /\ OutputIsThere /\ SpeechIsHeard => OutputIsHeard
    BY <1>1 DEF OutputIsHeard
  <1>3. QED
    BY <1>2, OutputHasOwner, OutputNeverNull, SpeechComesBack, PTL
=============================================================================
