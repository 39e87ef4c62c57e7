--------------------------- MODULE MCDeviceCommand ---------------------------
(***************************************************************************)
(* Small instances of the device commands for TLC.                         *)
(***************************************************************************)
EXTENDS DeviceCommand, TLC

CommandSymmetry == Permutations(Command)
=============================================================================
