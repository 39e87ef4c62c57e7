SPECIFICATION FairSpec
CONSTANTS
  Device = {d1, d2}
  Stored = {d1}
  Threshold = 1
  Grace = 2
  MaxRestarts = 2
  MaxDbFaults = 1
PROPERTIES KeepsNewsPromise OutagesAreRecorded RecoveriesAreRecorded
