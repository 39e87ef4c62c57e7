---------------------------- MODULE MCAccessCodes ----------------------------
\* Two users of one store and two devices for TLC, with two ranks of roles.
EXTENDS AccessCodes, TLC

Roles == {"store_admin", "operator"}
Administration == {"store_admin"}
ByInvite == {"operator"}
Ranks == ("store_admin" :> 10) @@ ("operator" :> 20)

CodesSymmetry == Permutations(User) \cup Permutations(Device)
=============================================================================
