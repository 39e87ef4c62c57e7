SPECIFICATION FairSpec
CONSTANTS
  Row = {r1, r2}
  Device = {d1}
  Store = {s1}
  MaxKills = 3
INVARIANTS RowsSurvive OnlyWindowsHarm
PROPERTIES ComesUp
