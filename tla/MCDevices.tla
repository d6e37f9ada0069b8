------------------------------ MODULE MCDevices ------------------------------
(* A horn, the ignition and the engine lock, and commands that reach every   *)
(* branch of them.                                                           *)
EXTENDS Devices

CONSTANTS horn, ignition, engine, ignition_fb

Do(action, target) ==
  [action |-> action, target |-> target, text |-> FALSE, delay |-> FALSE,
   interval |-> 0, condition |-> Always]

If(c, action, target, v) ==
  [c EXCEPT !.condition = [action |-> action, target |-> target, value |-> v]]

Later(c, n) == [c EXCEPT !.delay = TRUE, !.interval = n]
For(d, n)   == [Later(Do("ON", d), n) EXCEPT !.text = TRUE]

Switching == {Do("ON", horn), Do("OFF", horn), Do("TOGGLE", horn), Do("ON", ignition),
              Do("OFF", ignition), Do("TOGGLE", ignition), Do("TOGGLE", engine)}
Modes     == {Do("ENABLE", horn), Do("DISABLE", horn), Do("SILENCE", horn),
              Do("VOICE", horn), Do("SILENCE", ignition)}
Asking    == {Do("QUERY_ON", horn), Do("QUERY_OFF", horn), Do("QUERY_STATE", horn),
              Do("QUERY_STATE", engine), Do("QUERY_STATE", ignition_fb),
              Do("GET_DATA", ignition)}
Odd       == {Do("OFF", "ALL"), Do("NO_OP", horn), Do("ON", ignition_fb),
              [Do("ON", horn) EXCEPT !.interval = 1],
              If(Do("ON", horn), "NO_OP", horn, 0)}
Timed     == {For(horn, 0), For(horn, 1), Later(Do("TOGGLE", horn), 0)}
Guarded   == {If(Do("OFF", horn), "QUERY_DATA_L", ignition_fb, 5),
              If(Do("TOGGLE", engine), "QUERY_DATA_G", ignition, 0),
              If(Do("ON", horn), "QUERY_OFF", ignition, 0),
              If(Do("ON", ignition), "QUERY_ON", horn, 0)}

MCCommands  == Switching \cup Modes \cup Asking \cup Odd \cup Timed \cup Guarded
RepeatOnly  == {For(horn, 1)}
AllOnly     == {Do("ON", horn), Do("OFF", "ALL")}
IgnitionOn  == {Do("ON", ignition), Do("OFF", ignition), Do("GET_DATA", ignition)}
SilentModes == {Do("SILENCE", horn), Do("DISABLE", horn)}
GuardedFor  == {If(For(horn, 1), "QUERY_DATA_G", ignition_fb, 20)}
=============================================================================
