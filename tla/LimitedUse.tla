------------------------------ MODULE LimitedUse ------------------------------
(***************************************************************************)
(* What an invite or an enroll token promises: it is issued once, lets in  *)
(* at most as many as its limit says (0 for no limit), and nobody once it  *)
(* has ended; and what has ended does not begin again.                     *)
(***************************************************************************)
EXTENDS Naturals

CONSTANT Pass

VARIABLES
  stage,   \* [Pass -> "none", "valid" or "ended"]
  limit,   \* [Pass -> Nat]
  entered  \* [Pass -> Nat]: how many it let in

state == <<stage, limit, entered>>

Init ==
  /\ stage = [p \in Pass |-> "none"]
  /\ limit = [p \in Pass |-> 0]
  /\ entered = [p \in Pass |-> 0]

Issue(p) ==
  /\ stage[p] = "none"
  /\ stage' = [stage EXCEPT ![p] = "valid"]
  /\ limit'[p] \in Nat
  /\ limit' = [limit EXCEPT ![p] = limit'[p]]
  /\ UNCHANGED entered

Enter(p) ==
  /\ stage[p] = "valid"
  /\ limit[p] # 0 => entered[p] < limit[p]
  /\ entered' = [entered EXCEPT ![p] = @ + 1]
  /\ UNCHANGED <<stage, limit>>

End(p) ==
  /\ stage[p] = "valid"
  /\ stage' = [stage EXCEPT ![p] = "ended"]
  /\ UNCHANGED <<limit, entered>>

Next == \E p \in Pass : Issue(p) \/ Enter(p) \/ End(p)

Spec == Init /\ [][Next]_state
=============================================================================
