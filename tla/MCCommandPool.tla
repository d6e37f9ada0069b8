--------------------------- MODULE MCCommandPool ---------------------------
(* Small instances of the command pool for TLC.                              *)
EXTENDS CommandPool, TLC

CONSTANTS main, httpd, b1, b2

\* The payload buffers are interchangeable.
Buffers == Permutations({b1, b2})

\* Frames of the binary protocol and of text commands.
Binary(id, action, delay, interval) ==
  [kind |-> "binary", id |-> id, action |-> action, target |-> "DEVICE",
   delay |-> delay, interval |-> interval, size |-> 0, whole |-> TRUE,
   cond |-> FALSE]

Text(action, delay, interval) ==
  [Binary(0, action, delay, interval) EXCEPT !.kind = "string"]

WithData(f)  == [f EXCEPT !.size = 1]
Short(f)     == [WithData(f) EXCEPT !.whole = FALSE]
Condition(f) == [WithData(f) EXCEPT !.cond = TRUE]
NoTarget(f)  == [f EXCEPT !.target = "UNKNOWN"]

\* The main task's serial line and monitor handler alone.
SerialFrames ==
  [t \in {main} |->
    {Text("ON", 1, 0), Text("OFF", 0, 0), WithData(Text("ON", 0, 0)),
     Binary(1, "OTHER", 1, 1), WithData(Binary(2, "OTHER", 0, 0)),
     Binary(1, "CANCEL", 0, 0), NoTarget(WithData(Binary(2, "ON", 0, 0))),
     Condition(Binary(1, "ON", 1, 0)), Short(Binary(1, "ON", 0, 0)),
     Short(Text("ON", 0, 0)), Text("ON", 0, 1)}]

\* The web server's task alone.
WebFrames ==
  [t \in {httpd} |->
    {WithData(Binary(1, "OTHER", 1, 1)), Binary(1, "CANCEL", 0, 0),
     WithData(Binary(2, "OTHER", 0, 0))}]

\* Both.
BothFrames ==
  [t \in {main, httpd} |->
    IF t = main THEN {WithData(Text("OFF", 0, 0)), Short(Text("OFF", 0, 0))}
    ELSE {WithData(Binary(1, "OTHER", 0, 0)), Short(Binary(1, "OTHER", 0, 0))}]

\* One command to repeat a hundred times.
UnlimitedFrames == [t \in {httpd} |-> {Binary(1, "OTHER", 1, 100)}]

\* Every command that is due is taken, and every parse ends (Executor.cpp:159,
\* 299-345).
AllServed == DueServed /\ ParseEnds
=============================================================================
