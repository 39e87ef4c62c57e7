SPECIFICATION Spec
CONSTANTS
  User = {u1, u2}
  Store = {s1, s2}
  Device = {d1}
  Role <- Roles
  AdminRoles <- Administration
  InviteRoles <- ByInvite
  Priority <- Ranks
  Bootstrap = bootstrap
SYMMETRY AccessSymmetry
INVARIANTS ContextIsMember ContextDeviceIsLive
PROPERTIES AuthorityIsCurrent StoresAreApart
CHECK_DEADLOCK FALSE
