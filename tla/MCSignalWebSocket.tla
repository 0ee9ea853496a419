-------------------------- MODULE MCSignalWebSocket --------------------------
(* Small instances of SignalWebSocket. *)
EXTENDS SignalWebSocket

CONSTANTS q1, q2, c1, i1, i2, i3
=============================================================================
