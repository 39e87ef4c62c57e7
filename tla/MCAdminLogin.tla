---------------------------- MODULE MCAdminLogin ----------------------------
\* Two users who claim two challenges, and two browsers, for TLC.
EXTENDS AdminLogin, TLC

LoginSymmetry ==
  Permutations(User) \cup Permutations(Browser) \cup Permutations(Challenge)
=============================================================================
