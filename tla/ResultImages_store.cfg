SPECIFICATION FairSpec
CONSTANTS
  MaxBlobs = 3
  Reader = {q1, q2}
  Result = {r1}
  NoResult = NoResult
  MaxPlaceholders = 2
  MaxFaults = 2
INVARIANTS OnlyExpiredIsLost OrphansAreExplained CacheIsServable
PROPERTIES ExpiredGo
CHECK_DEADLOCK FALSE
