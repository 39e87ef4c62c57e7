---------------------------- MODULE MCDefectIngest ----------------------------
(***************************************************************************)
(* Small instances of the scan uploads for TLC.                            *)
(***************************************************************************)
EXTENDS DefectIngest

\* Senders that write UTC, and senders two seconds west of it.
West == {0, -4}
=============================================================================
