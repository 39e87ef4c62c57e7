SPECIFICATION CodesSpec
CONSTANTS
  User = {u1, u2}
  Store = {s1}
  Device = {d1, d2}
  Role <- Roles
  AdminRoles <- Administration
  InviteRoles <- ByInvite
  Priority <- Ranks
  Bootstrap = bootstrap
  MaxInvites = 2
  Token = {t1}
  Code = {c1}
  MaxLimit = 1
  MaxEntries = 1
SYMMETRY CodesSymmetry
INVARIANTS CodeIsUnambiguous
PROPERTIES KeepsLimits
CHECK_DEADLOCK FALSE
