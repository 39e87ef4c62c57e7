---------------------------- MODULE MCDefectAlerts ----------------------------
(***************************************************************************)
(* A small instance of scan uploads and their recipients for TLC.          *)
(***************************************************************************)
EXTENDS DefectAlerts, TLC

CONSTANTS d1, s1, full, status

\* Senders that write UTC and senders two seconds west of it, and one device
\* in the only store.
West == {0, -4}
OneStore == d1 :> s1

\* A role that is told of everything and one that is not told of defects.
TwoRoles == full :> Permission @@ status :> {"access", "device_status"}

\* Images are unrelated, and so are fruits.
UploadSymmetry == Permutations(Image) \cup Permutations(Fruit)
=============================================================================
