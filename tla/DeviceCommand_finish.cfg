SPECIFICATION FairCommandSpec
CONSTANTS
  Device = {dev}
  Command = {c1}
  MaxSockets = 2
  MaxDbFaults = 1
  MaxCrashes = 1
  MaxRowFaults = 1
PROPERTIES CommandsFinish CallsReturn SupersededLeave
CHECK_DEADLOCK FALSE
