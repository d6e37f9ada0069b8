---------------------------- MODULE MCWebTransport ----------------------------
(* Small instances of the WebSocket endpoint for TLC.                        *)
EXTENDS WebTransport, TLC

CONSTANTS f1, f2, f3

\* Any descriptor may be the next one.
Sockets == Permutations(Fds)
=============================================================================
