-------------------------- MODULE MCStorageService --------------------------
(* Three devices with an edit each, to two records.                        *)
EXTENDS StorageService

CONSTANTS d1, d2, d3
=============================================================================
