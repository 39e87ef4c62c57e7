SPECIFICATION Spec
CONSTANTS
  User = {u1, u2}
  Browser = {b1, b2}
  Challenge = {c1, c2}
  Bootstrap = bootstrap
SYMMETRY LoginSymmetry
INVARIANTS SessionIsEarned
PROPERTIES LoginNeedsAuthority OneLoginPerChallenge
