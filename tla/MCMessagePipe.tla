---------------------------- MODULE MCMessagePipe ----------------------------
(* Small instances of MessagePipe. *)
EXTENDS MessagePipe

CONSTANTS c1, i1, i2
=============================================================================
