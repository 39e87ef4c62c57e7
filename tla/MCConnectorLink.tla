--------------------------- MODULE MCConnectorLink ---------------------------
(***************************************************************************)
(* Small instances of the realtime link for TLC.                           *)
(***************************************************************************)
EXTENDS ConnectorLink, TLC

\* Commands are interchangeable (sockets are ordered).
CommandSymmetry == Permutations(Command)
=============================================================================
