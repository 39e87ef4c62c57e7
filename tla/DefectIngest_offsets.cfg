SPECIFICATION Spec
CONSTANTS
  Device = {d1}
  Stored = {d1}
  Image = {i1, i2}
  Fruit = {apple}
  MaxDefects = 1
  MaxTime = 5
  Offset <- West
  Window = 2
INVARIANTS OnePerWindow
CHECK_DEADLOCK FALSE
