--------------------------- MODULE Configuration ---------------------------
(***************************************************************************)
(* The settings: Configuration over the non-volatile storage of the chip.  *)
(* The storage (external) gives a key the type of its first value, refuses *)
(* a value of another type, and answers a question of another type with an *)
(* error; nobody looks at either result.  The bike may restart at any      *)
(* moment; a setting is committed by the call that writes it.              *)
(***************************************************************************)
EXTENDS Integers, SequencesExt

CONSTANTS Words,   \* the parts a text payload is made of: keys, and values
          MaxParts \* bound: parts of a text payload, split by '/'

I == "CONF_MGC_I"
F == "CONF_MGC_F"
B == "CONF_MGC_B"
S == "CONF_MGC_S"
Types == {I, F, B, S}

Values == 0..2     \* numbers, and the bits of floats
NoText == ""
ConfigurationAssumption ==
  /\ NoText \notin Words /\ Words \subseteq STRING /\ MaxParts \in Nat

(* The parts of a payload between its slashes; one may be empty.           *)
Payloads == BoundedSeq(Words \cup {NoText}, MaxParts)

(* The lengths of a command's data that execute tells apart.               *)
KeyBuffer == 57
Sizes == {3, 4, KeyBuffer - 2, KeyBuffer - 1}

VARIABLES
  opened, \* Configuration::opened
  nvs,    \* what the storage holds of each key: its type and its value
  answer, \* the answer to the READ of this step, or NoAnswer
  kept    \* history: the last value a key was given, and as what

vars == <<opened, nvs, answer, kept>>

(* The stored type of a configuration type: a float is kept as its bits.   *)
StoredSwitch(type) == IF type = S THEN "str" ELSE "u32"
Stored(type) ==
  CASE type \in {I, F} -> "u32" [] type = B -> "u8" [] type = S -> "str"
Default(type) == IF type = S THEN NoText ELSE 0

Fits(store, k, t) == k \in DOMAIN store => store[k].type = t
Set(store, k, t, v) ==
  [x \in DOMAIN store \cup {k} |-> IF x = k THEN [type |-> t, value |-> v] ELSE store[x]]
Get(store, k, t, default) ==
  IF k \in DOMAIN store /\ store[k].type = t THEN store[k].value ELSE default

(* strtok: the parts that are not empty.                                   *)
Tokens(payload) == SelectSeq(payload, LAMBDA p : p # NoText)

NoAnswer == [type |-> "none"]
Init == opened = FALSE /\ nvs = <<>> /\ kept = <<>> /\ answer = NoAnswer

----------------------------------------------------------------------------
(* A storage with no free page, or of a newer format, is erased.           *)
Open(erased, initialised, handle) ==
  /\ ~opened /\ opened' = (initialised /\ handle)
  /\ nvs' = IF erased THEN <<>> ELSE nvs
  /\ kept' = IF erased THEN <<>> ELSE kept
  /\ answer' = NoAnswer

(* close, and the bike restarting: a value that was set is still there.    *)
Close == opened /\ opened' = FALSE /\ answer' = NoAnswer /\ UNCHANGED <<nvs, kept>>

(* What execute refuses before it looks at the action.                     *)
TooLong(size) == size >= KeyBuffer - 1
Refused(type, size) == TooLong(size) \/ (type # S /\ size < 4)

(* What a key is for: a number, a switch or a text.                        *)
Kind(type) == CASE type \in {I, F} -> 1 [] type = B -> 2 [] type = S -> 3

(* The storage may also be full.                                           *)
Store(k, type, v, room) ==
  LET Into(store, t) == IF opened /\ room /\ Fits(store, k, t) THEN Set(store, k, t, v) ELSE store IN
  /\ nvs' = Into(nvs, Stored(type))
  /\ kept' = Into(kept, Kind(type))
  /\ answer' = NoAnswer /\ UNCHANGED opened

AsBoolean(v) == IF v >= 1 THEN 1 ELSE 0
WriteNumber(type, size, k, v, room) ==
  /\ type # S /\ ~Refused(type, size)
  /\ Store(k, type, IF type = B THEN AsBoolean(v) ELSE v, room)

WriteString(size, payload, room) ==
  LET t == Tokens(payload) IN
  /\ ~Refused(S, size) /\ Len(t) >= 2
  /\ Store(t[1], S, t[2], room)

Read(type, size, k) ==
  /\ ~Refused(type, size)
  /\ answer' = [type |-> type, key |-> k,
                value |-> IF opened THEN Get(nvs, k, Stored(type), Default(type))
                          ELSE Default(type)]
  /\ UNCHANGED <<opened, nvs, kept>>

(* A command that is refused, a text with no value, and an action that is  *)
(* neither READ nor WRITE: it is the configuration's, and nothing is done. *)
Ignore == UNCHANGED vars

Execute ==
  \/ \E type \in Types, size \in Sizes, k \in Words, v \in Values, room \in BOOLEAN :
       WriteNumber(type, size, k, v, room)
  \/ \E size \in Sizes, payload \in Payloads, room \in BOOLEAN : WriteString(size, payload, room)
  \/ \E type \in Types, size \in Sizes, k \in Words : Read(type, size, k)
  \/ Ignore

Next ==
  \/ \E erased, initialised, handle \in BOOLEAN : Open(erased, initialised, handle)
  \/ Close
  \/ Execute

Spec == Init /\ [][Next]_vars

----------------------------------------------------------------------------
(* A READ answers the last value its key was given as the same kind of     *)
(* setting, also after restarts, and the default when there is none: a     *)
(* switch, a number and a text are never taken for one another             *)
(* (Configuration.cpp:53-120, 229-275).                                    *)
AnswersAsKept ==
  answer # NoAnswer =>
    \/ answer.value = Get(kept, answer.key, Kind(answer.type), Default(answer.type))
    \/ ~opened /\ answer.value = Default(answer.type)
============================================================================
