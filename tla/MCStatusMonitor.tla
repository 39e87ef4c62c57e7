---------------------------- MODULE MCStatusMonitor ----------------------------
(***************************************************************************)
(* Small instances of the status monitor for TLC.                          *)
(***************************************************************************)
EXTENDS StatusMonitor
=============================================================================
