SPECIFICATION CommandSpec
CONSTANTS
  Device = {dev}
  Command = {c1, c2}
  MaxSockets = 2
  MaxDbFaults = 1
  MaxCrashes = 1
  MaxRowFaults = 1
SYMMETRY CommandSymmetry
INVARIANTS OpenRowsAreExplained NoPendingLeak ConnectedIsServed ServingIsRegistered
PROPERTIES KeepsCommandPromise KeepsCallPromise TimelyAnswersCount AnswersNeverKill
CHECK_DEADLOCK FALSE
