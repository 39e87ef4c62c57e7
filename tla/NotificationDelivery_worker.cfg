SPECIFICATION FairSpec
CONSTANTS
  MaxDeliveries = 2
  BatchSize = 1
  MaxAttempts = 2
  Reports <- AllReports
  MaxCrashes = 2
  MaxDbFaults = 2
INVARIANTS MessagesBounded GivesUpAfterAllAttempts OnlyTemporaryFailuresRequeue
PROPERTIES KeepsPromise OnlyStartupFreesStranded SettlesOrStrands
CHECK_DEADLOCK FALSE
