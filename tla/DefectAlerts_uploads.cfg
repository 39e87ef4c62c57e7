SPECIFICATION AlertSpec
CONSTANTS
  d1 = d1
  s1 = s1
  full = full
  status = status
  Device = {d1}
  Stored = {d1}
  StoreOf <- OneStore
  Image = {i1, i2}
  Fruit = {apple, pear}
  MaxDefects = 2
  MaxTime = 3
  Offset <- West
  Window = 2
  User = {u1}
  Store = {s1}
  Role = {full, status}
  NoRole = NoRole
  NoRow = NoRow
  Permits <- TwoRoles
SYMMETRY UploadSymmetry
INVARIANTS StoredIsAnnounced ClocksApart
PROPERTIES ImagesCountOnce ToldAsWished
CHECK_DEADLOCK FALSE
