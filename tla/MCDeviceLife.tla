---------------------------- MODULE MCDeviceLife ----------------------------
(* Two attempts to link; ids that wrap within the batches of a run.        *)
EXTENDS DeviceLife
=============================================================================
