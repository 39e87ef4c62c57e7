------------------------------ MODULE MCAccess ------------------------------
\* Two users and two stores for TLC, with two ranks of roles.
EXTENDS Access, TLC

Roles == {"store_admin", "operator"}
Administration == {"store_admin"}
ByInvite == {"operator"}
Ranks == ("store_admin" :> 10) @@ ("operator" :> 20)

AccessSymmetry == Permutations(User) \cup Permutations(Store)
=============================================================================
