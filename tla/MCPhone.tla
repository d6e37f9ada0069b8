------------------------------ MODULE MCPhone ------------------------------
(* The sentences of the phone and what each of them says.                  *)
EXTENDS Phone

(* A clause: the words, the field of the command they set, and to what.    *)
Act(words, a) == [words |-> words, sets |-> "action", to |-> a]
Dev(words, d) == [words |-> words, sets |-> "target", to |-> d]
Num(words, f, n) == [words |-> words, sets |-> f, to |-> n]
Cond(words, a, d, n) ==
  [words |-> words, sets |-> "condition",
   to |-> [exists |-> TRUE, action |-> a, target |-> d, value |-> n]]

Acts == {Act(<<"turn", "on">>, "ON"), Act(<<"please", "check", "if", "on">>, "QUERY_ON")}
Devs == {Dev(<<"the", "headlamp">>, "HEADLAMP"), Dev(<<"left", "turn", "signal">>, "LEFT_TURN")}
Delays == {Num(<<"for", "5", "seconds">>, "delay", 5), Num(<<"after", "20">>, "delay", 20)}
Intervals == {Num(<<"repeat", "3", "times">>, "interval", 3), Num(<<"3", "times">>, "interval", 3)}
Conds == {Cond(<<"if", "the", "fuel", "is", "above", "20">>, "QUERY_DATA_G", "FUEL_GAUGE", 20),
          Cond(<<"when", "temperature", "drops", "5">>, "QUERY_DATA_L", "TEMP_GAUGE", 5)}

(* One clause of each kind, the last three of which may be missing.        *)
Clauses ==
  LET Some(S) == {{}} \cup {{c} : c \in S} IN
  {{a, d} \cup t \cup i \cup c : a \in Acts, d \in Devs, t \in Some(Delays),
                                 i \in Some(Intervals), c \in Some(Conds)}

WordsOf(order) == FlattenSeq([k \in DOMAIN order |-> order[k].words])
Meaning(clauses) ==
  [f \in DOMAIN NoCommand |->
     IF \E c \in clauses : c.sets = f THEN (CHOOSE c \in clauses : c.sets = f).to
     ELSE NoCommand[f]]

Whenever(watch, d, trigger, a, n, then, ta, td) ==
  [words |-> <<"whenever">> \o watch \o trigger \o then,
   means |-> [NoCommand EXCEPT !.monitor = TRUE, !.target = d, !.action = a, !.value = n,
                               !.thenAction = ta, !.thenTarget = td]]

Monitored ==
  {Whenever(w[1], w[2], t[1], t[2], t[3], h \o x[1], x[2], x[3]) :
     w \in {<<<<"the", "fuel", "level">>, "FUEL_GAUGE">>, <<<<"engine">>, "ENGINE">>},
     t \in {<<<<"turns", "on">>, "ON", 0>>, <<<<"changes">>, "TOGGLE", 0>>,
            <<<<"is", "less", "than", "20">>, "QUERY_DATA_L", 20>>,
            <<<<"rises", "5">>, "QUERY_DATA_G", 5>>},
     h \in {<<>>, <<"then">>},
     x \in {<<<<"turn", "off", "the", "horn">>, "OFF", "HORN">>,
            <<<<"headlamp", "turn", "on">>, "ON", "HEADLAMP">>}}

Button(words, a, d) == [words |-> words, means |-> [NoCommand EXCEPT !.action = a, !.target = d]]
Buttons ==
  {Button(<<"turn", "on", "headlamp">>, "ON", "HEADLAMP"),
   Button(<<"turn", "off", "left", "turn", "signal">>, "OFF", "LEFT_TURN"),
   Button(<<"turn", "on", "right", "turn", "signal">>, "ON", "RIGHT_TURN"),
   Button(<<"turn", "off", "horn">>, "OFF", "HORN"),
   Button(<<"turn", "on", "ignition">>, "ON", "IGNITION"),
   Button(<<"turn", "on", "starter">>, "ON", "STARTER"),
   Button(<<"turn", "off", "engine">>, "OFF", "ENGINE"),
   Button(<<"check", "fuel", "gauge">>, "QUERY_DATA", "FUEL_GAUGE"),
   Button(<<"check", "temperature">>, "QUERY_DATA", "TEMP_GAUGE"),
   Button(<<"previous", "bluetooth">>, "PREV", "BLUETOOTH"),
   Button(<<"skip", "bluetooth">>, "NEXT", "BLUETOOTH"),
   Button(<<"volume", "up", "bluetooth">>, "VOLUME_UP", "BLUETOOTH"),
   Button(<<"volume", "down", "bluetooth">>, "VOLUME_DOWN", "BLUETOOTH"),
   Button(<<"play", "bluetooth">>, "PLAY", "BLUETOOTH"),
   Button(<<"pause", "bluetooth">>, "PAUSE", "BLUETOOTH"),
   Button(<<"start", "ai", "conversation">>, "START_AI", "CONVERSATION"),
   Button(<<"cancel", "conversation">>, "CANCEL", "CONVERSATION")}
StartReal == Button(<<"start", "real", "conversation">>, "START_REAL", "CONVERSATION")

Nonsense == {<<>>, <<"headlamp">>, <<"turn", "on">>, <<"turn", "on", "horn", "for", "seconds">>,
             <<"turn", "on", "horn", "above", "20">>, <<"whenever", "headlamp", "turn", "off", "horn">>}

Said(words, means) == [words |-> words, means |-> means]
Sentences ==
  UNION {{Said(WordsOf(o), Built(Meaning(cs))) : o \in SetToSeqs(cs)} : cs \in Clauses}
  \cup {Said(s.words, Built(s.means)) : s \in Monitored \cup Buttons}
  \cup {Said(w, Refused) : w \in Nonsense}

EverySentenceIsBuilt == \A s \in Sentences : Parse(s.words) = s.means

(* CommandFactory.cpp:228-367: a sentence that is handled is built into    *)
(* the command it says, whatever the order of its clauses and the filler   *)
(* words between them, and one that lacks a part is refused.               *)
BuiltAsSaid == text # None => EverySentenceIsBuilt

(* "whenever the fuel level drops below 20 turn on the headlamp"           *)
(* (CommandFactory.h:11-12) is a sentence the factory understands.         *)
DocumentedIsBuilt ==
  text # None =>
    ~Parse(<<"whenever", "the", "fuel", "level", "drops", "below", "20",
             "turn", "on", "the", "headlamp">>).error

(* The phrase of the button that starts a conversation                     *)
(* (MainActivity.java:145) is understood.                                  *)
StartRealIsBuilt == text # None => ~Parse(StartReal.words).error

============================================================================
