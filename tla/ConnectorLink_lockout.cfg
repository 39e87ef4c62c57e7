SPECIFICATION Spec
CONSTANTS
  Device = {dev}
  Command = {c1}
  MaxSockets = 3
  MaxDbFaults = 0
  MaxCrashes = 0
PROPERTIES DiesOnlyOfItsOwn
CHECK_DEADLOCK FALSE
