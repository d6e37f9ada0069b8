------------------------------- MODULE Speech ------------------------------
(***************************************************************************)
(* How EcclesTTS turns a sentence into clips.  A sentence is a sequence of *)
(* words.  A word and a clip are a number or a text; the clips that exist  *)
(* are the package.                                                        *)
(***************************************************************************)
EXTENDS Naturals, Sequences, SequencesExt

Number(n) == <<"number", n>>
Text(w) == <<"text", w>>
IsNumber(w) == w[1] = "number"

Clip(what, delay) == [say |-> what, delay |-> delay]

(* Parts of a sentence: a condition chooses whether a part is there. *)
If(condition, part) == IF condition THEN <<part>> ELSE <<>>

(* What playDigits plays for a number 0..100, if every clip exists: the    *)
(* hundred, "and", the tens or the teens, the unit; the last clip is       *)
(* followed by half a second.                                              *)
\* Mutant of Digits: the unit is said after a teen too.
DigitsTeen(d) ==
  If(d \in 10..19, Clip(Number(d), 500)) \o If(d > 19, Clip(Number(10 * (d \div 10)), 0))
  \o If(d % 10 > 0, Clip(Number(d % 10), 500))

Digits(d) ==
  LET h == d \div 100
      t == (d \div 10) % 10
      u == d % 10
      Pause(last) == IF last THEN 500 ELSE 0 IN
  If(h > 0, Clip(Number(100 * h), Pause(t = 0 /\ u = 0)))
  \o If(h > 0 /\ (t > 0 \/ u > 0), Clip(Text("and"), 0))
  \o If(t = 1, Clip(Number(10 + u), 500))
  \o If(t > 1, Clip(Number(10 * t), Pause(u = 0)))
  \o If(t # 1 /\ (u > 0 \/ (h = 0 /\ t = 0)), Clip(Number(u), 500))

(* The first clip that is missing ends it, what came before is played. *)
UpToMissing(clips, package) ==
  LET missing == {i \in DOMAIN clips : clips[i].say \notin package} IN
  IF missing = {} THEN clips
  ELSE SubSeq(clips, 1, (CHOOSE i \in missing : \A j \in missing : i <= j) - 1)

Spelled(d, package) == UpToMissing(Digits(d), package)

(* speak: a number above 100 is left out, an unknown word ends the sentence. *)
Said(w, package) ==
  IF IsNumber(w) THEN (IF w[2] > 100 THEN <<>> ELSE Spelled(w[2], package))
  ELSE <<Clip(w, 500)>>

SpokenWords(s, package) ==
  LET unknown == {i \in DOMAIN s : ~IsNumber(s[i]) /\ s[i] \notin package} IN
  IF unknown = {} THEN s
  ELSE SubSeq(s, 1, (CHOOSE i \in unknown : \A j \in unknown : i <= j) - 1)

Clips(s, package) ==
  FlattenSeq([i \in DOMAIN SpokenWords(s, package) |-> Said(s[i], package)])

----------------------------------------------------------------------------
(* A complete package: every clip the digits can ask for. *)
EveryNumber == {Number(n) : n \in (0..19) \cup {10 * t : t \in 2..9} \cup {100}}
               \cup {Text("and")}

(* A number is the hundred, "and", the tens and the unit at most. *)
WorthOf(clips, i) ==
  IF i \in DOMAIN clips /\ IsNumber(clips[i].say) THEN clips[i].say[2] ELSE 0
ValueOf(clips) ==
  WorthOf(clips, 1) + WorthOf(clips, 2) + WorthOf(clips, 3) + WorthOf(clips, 4)

(* With a complete package every number up to 100 is said whole: its clips *)
(* add up to it, none is missing, and half a second follows the last clip  *)
(* and no other, so that it does not run into the next word                *)
(* (EcclesTTS.cpp:170).                                                    *)
EveryNumberIsSaid ==
  \A d \in 0..100 :
    LET clips == Spelled(d, EveryNumber) IN
    /\ Len(clips) \in 1..4 /\ ValueOf(clips) = d
    /\ \A i \in DOMAIN clips : clips[i].delay = 500 <=> i = Len(clips)

(* "digit not found, we discard everything" (EcclesTTS.cpp:164): a number  *)
(* with a missing clip is not said.  The tens are queued before the unit   *)
(* is looked up, and stay.                                                 *)
NumberOrNothing(package) ==
  \A d \in 0..100 : ValueOf(Spelled(d, package)) \in {0, d}
============================================================================
