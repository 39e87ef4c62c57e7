----------------------------- MODULE PresenceNews -----------------------------
(***************************************************************************)
(* What the subscribers of a store are promised about its devices, with no *)
(* polling, no grace period, no transaction and no process: an outage is   *)
(* told at most once, and a return only to who was not last told that the  *)
(* device is there.                                                        *)
(***************************************************************************)
CONSTANT Device

VARIABLES
  told,   \* [Device -> the event it is told of now, or "none"]
  news,   \* [Device -> the last event of the device, or "none"]
  fresh   \* [Device -> BOOLEAN]: seen since what its last outage was told from

Quiet == [d \in Device |-> "none"]

Init ==
  /\ told = Quiet
  /\ news = Quiet
  /\ fresh = [d \in Device |-> FALSE]

\* A device gives a sign of life.
See(d) ==
  /\ fresh' = [fresh EXCEPT ![d] = TRUE]
  /\ UNCHANGED <<told, news>>

\* It may have given one since the outage that is told now was found.
Outage(d) == told'[d] = "offline" /\ fresh[d] /\ fresh'[d] \in BOOLEAN

Return(d) == told'[d] = "online" /\ news[d] # "online" /\ fresh'[d] = fresh[d]

Nothing(d) == told'[d] = "none" /\ fresh'[d] = fresh[d]

\* The events of several devices may come out together.
Tell ==
  /\ told = Quiet
  /\ told' \in [Device -> {"none", "online", "offline"}]
  /\ fresh' \in [Device -> BOOLEAN]
  /\ \A d \in Device : Outage(d) \/ Return(d) \/ Nothing(d)
  /\ news' = [d \in Device |-> IF told'[d] # "none" THEN told'[d] ELSE news[d]]

\* They are told; the next ones may come.
Pass ==
  /\ told' = Quiet
  /\ UNCHANGED <<news, fresh>>

Next == Tell \/ Pass \/ \E d \in Device : See(d)

Spec == Init /\ [][Next]_<<told, news, fresh>>
=============================================================================
