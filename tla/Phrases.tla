------------------------------ MODULE Phrases ------------------------------
(***************************************************************************)
(* CommandFactory.cpp of the phone: how a sentence becomes a command.  A   *)
(* word is a string; hashes are equal exactly when words are.  The phrase  *)
(* tables hold every shape of phrase and what the buttons send, not every  *)
(* synonym.                                                                *)
(***************************************************************************)
EXTENDS Naturals, SequencesExt

None == "none"

FillerWords == {"the", "a", "please", "is", "to", "and"}
NumberOf == "3" :> 3 @@ "5" :> 5 @@ "20" :> 20 @@ "300" :> 300
IsNumber(w) == w \in DOMAIN NumberOf
AsByte(w) == NumberOf[w] % 256

ActionPhrases ==
  <<"turn", "on">> :> "ON" @@ <<"turn", "off">> :> "OFF"
  @@ <<"check", "if", "on">> :> "QUERY_ON" @@ <<"check">> :> "QUERY_DATA"
  @@ <<"cancel">> :> "CANCEL" @@ <<"stop">> :> "CANCEL" @@ <<"skip">> :> "NEXT"
  @@ <<"play">> :> "PLAY" @@ <<"pause">> :> "PAUSE" @@ <<"previous">> :> "PREV"
  @@ <<"volume", "up">> :> "VOLUME_UP" @@ <<"volume", "down">> :> "VOLUME_DOWN"
  @@ <<"start", "ai">> :> "START_AI"

TargetPhrases ==
  <<"headlamp">> :> "HEADLAMP" @@ <<"horn">> :> "HORN" @@ <<"ignition">> :> "IGNITION"
  @@ <<"ignition", "feedback">> :> "IGNITION_FB" @@ <<"starter">> :> "STARTER"
  @@ <<"engine">> :> "ENGINE" @@ <<"engine", "temperature">> :> "TEMP_GAUGE"
  @@ <<"left", "turn", "signal">> :> "LEFT_TURN"
  @@ <<"right", "turn", "signal">> :> "RIGHT_TURN"
  @@ <<"fuel">> :> "FUEL_GAUGE" @@ <<"fuel", "gauge">> :> "FUEL_GAUGE"
  @@ <<"fuel", "level">> :> "FUEL_GAUGE" @@ <<"temperature">> :> "TEMP_GAUGE"
  @@ <<"bluetooth">> :> "BLUETOOTH" @@ <<"conversation">> :> "CONVERSATION"

For == {"for", "in", "after", "delay"}
Seconds == {"seconds", "second"}
If == {"if", "when"}
Greater == {"greater", "above", "more", "rises"}
Lesser == {"less", "below", "under", "drops"}
ThenDo == {"then", "do"}

----------------------------------------------------------------------------
(* matchPhrase: the longest of at most three words that is in the table.   *)
Matches(tokens, i, table) ==
  {n \in 1..3 : i + n - 1 <= Len(tokens) /\ SubSeq(tokens, i, i + n - 1) \in DOMAIN table}
Longest(tokens, i, table) ==
  LET m == Matches(tokens, i, table) IN CHOOSE n \in m : \A k \in m : k <= n

WordAt(tokens, i) == IF i <= Len(tokens) THEN tokens[i] ELSE None

(* One turn of the loop of parseSentence reads one piece of the sentence:  *)
(* what it is, what it says, and how many words it takes.                  *)
Piece(what, says, words) == [what |-> what, says |-> says, words |-> words]

PhraseAt(tokens, i) ==
  IF Matches(tokens, i, TargetPhrases) # {}
  THEN LET n == Longest(tokens, i, TargetPhrases) IN
       Piece("target", TargetPhrases[SubSeq(tokens, i, i + n - 1)], n)
  ELSE IF Matches(tokens, i, ActionPhrases) # {}
  THEN LET n == Longest(tokens, i, ActionPhrases) IN
       Piece("action", ActionPhrases[SubSeq(tokens, i, i + n - 1)], n)
  ELSE Piece("other", None, 1)

(* A number has to follow, and a unit may follow it. *)
Counted(tokens, i, what, units) ==
  IF IsNumber(WordAt(tokens, i + 1))
  THEN Piece(what, AsByte(tokens[i + 1]),
             IF WordAt(tokens, i + 2) \in units THEN 3 ELSE 2)
  ELSE Piece("error", None, 1)

PieceAt(tokens, i) ==
  LET w == tokens[i] IN
  CASE w \in If       -> Piece("if", None, 1)
    [] w = "than"     -> Piece("other", None, 1)
    [] w \in For      -> Counted(tokens, i, "delay", Seconds)
    [] w = "repeat"   -> Counted(tokens, i, "interval", {"times"})
    [] IsNumber(w) /\ WordAt(tokens, i + 1) = "times" -> Piece("interval", AsByte(w), 2)
    [] w \in Greater  -> Counted(tokens, i, "QUERY_DATA_G", {})
    [] w \in Lesser   -> Counted(tokens, i, "QUERY_DATA_L", {})
    [] OTHER          -> PhraseAt(tokens, i)

Pieces(tokens) ==
  LET from[i \in Nat] ==
        IF i > Len(tokens) THEN <<>>
        ELSE LET p == PieceAt(tokens, i) IN <<p>> \o from[i + p.words] IN
  from[1]

NoCondition == [exists |-> FALSE, action |-> "NO_OP", target |-> "UNKNOWN", value |-> 0]
NoCommand == [action |-> "NO_OP", target |-> "UNKNOWN", delay |-> 0, interval |-> 0,
              condition |-> NoCondition, monitor |-> FALSE, value |-> 0,
              thenAction |-> "NO_OP", thenTarget |-> "UNKNOWN"]
Refused == [error |-> TRUE]
Built(cmd) == [error |-> FALSE, cmd |-> cmd]

(* s is what the loop has built so far: the command, inCondition, failed.  *)
CompareStays(s, p) ==
  IF ~s.inCondition THEN [s EXCEPT !.failed = TRUE]
  ELSE [s EXCEPT !.cmd.condition.action = p.what, !.cmd.condition.value = p.says,
                 !.cmd.condition.exists = TRUE]
Compare(s, p) ==
  IF ~s.inCondition THEN [s EXCEPT !.failed = TRUE]
  ELSE [s EXCEPT !.cmd.condition.action = p.what, !.cmd.condition.value = p.says,
                 !.cmd.condition.exists = TRUE, !.inCondition = FALSE]

Apply(s, p) ==
  CASE s.failed          -> s
    [] p.what = "error"    -> [s EXCEPT !.failed = TRUE]
    [] p.what = "if"       -> [s EXCEPT !.inCondition = TRUE]
    [] p.what = "delay"    -> [s EXCEPT !.cmd.delay = p.says]
    [] p.what = "interval" -> [s EXCEPT !.cmd.interval = p.says]
    [] p.what = "action"   -> [s EXCEPT !.cmd.action = p.says]
    [] p.what = "target"   -> IF s.inCondition
                              THEN [s EXCEPT !.cmd.condition.target = p.says]
                              ELSE [s EXCEPT !.cmd.target = p.says]
    [] p.what \in {"QUERY_DATA_G", "QUERY_DATA_L"} -> Compare(s, p)
    [] OTHER               -> s

ParsePlain(tokens) ==
  LET s == FoldLeft(Apply, [cmd |-> NoCommand, inCondition |-> FALSE, failed |-> FALSE],
                    Pieces(tokens)) IN
  IF \/ s.failed \/ s.cmd.target = "UNKNOWN" \/ s.cmd.action = "NO_OP" THEN Refused
  ELSE Built(s.cmd)

----------------------------------------------------------------------------
(* parseMonitorSentence: what is watched, the trigger, what to do then.    *)
TriggerWords == {"changes", "on", "off"} \cup Greater \cup Lesser

Trigger(tokens, i) ==
  LET w == tokens[i]
      j == IF WordAt(tokens, i + 1) = "than" THEN i + 2 ELSE i + 1 IN
  CASE w = "changes" -> Piece("TOGGLE", 0, 1)
    [] w = "on"      -> Piece("ON", 0, 1)
    [] w = "off"     -> Piece("OFF", 0, 1)
    [] ~IsNumber(WordAt(tokens, j)) -> Piece("error", 0, 1)
    [] w \in Greater -> Piece("QUERY_DATA_G", AsByte(tokens[j]), j + 1 - i)
    [] OTHER         -> Piece("QUERY_DATA_L", AsByte(tokens[j]), j + 1 - i)

(* The first action and the first device among the words from i on. *)
FirstOf(tokens, i, table) ==
  LET found == {k \in i..Len(tokens) : Matches(tokens, k, table) # {}} IN
  IF found = {} THEN None
  ELSE LET k == CHOOSE k \in found : \A l \in found : k <= l IN
       table[SubSeq(tokens, k, k + Longest(tokens, k, table) - 1)]

ParseMonitor(tokens) ==
  IF tokens = <<>> \/ Matches(tokens, 1, TargetPhrases) = {} THEN Refused
  ELSE
  LET n == Longest(tokens, 1, TargetPhrases)
      triggers == {i \in n + 1..Len(tokens) : tokens[i] \in TriggerWords} IN
  IF triggers = {} THEN Refused
  ELSE
  LET i == CHOOSE k \in triggers : \A l \in triggers : k <= l
      t == Trigger(tokens, i)
      act == FirstOf(tokens, i + t.words, ActionPhrases)
      dev == FirstOf(tokens, i + t.words, TargetPhrases) IN
  IF t.what = "error" \/ act = None \/ dev = None THEN Refused
  ELSE Built([NoCommand EXCEPT !.monitor = TRUE, !.action = t.what, !.value = t.says,
                               !.target = TargetPhrases[SubSeq(tokens, 1, n)],
                               !.thenAction = act, !.thenTarget = dev])

----------------------------------------------------------------------------
(* build, without the wake word: which sentences are read as which grammar. *)
Tokens(sentence) == SelectSeq(sentence, LAMBDA w : w \notin FillerWords)
Parse(sentence) ==
  IF sentence # <<>> /\ sentence[1] = "whenever" THEN ParseMonitor(Tokens(Tail(sentence)))
  ELSE ParsePlain(Tokens(sentence))
============================================================================
