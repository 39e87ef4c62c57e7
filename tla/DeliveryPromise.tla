--------------------------- MODULE DeliveryPromise ---------------------------
(***************************************************************************)
(* What the notification outbox promises of each delivery, with no worker, *)
(* no batch, no retry and no process: a delivery is opened once, reaches   *)
(* one outcome and keeps it, and is called "sent" only when its user has   *)
(* been shown the message.                                                 *)
(***************************************************************************)
EXTENDS Naturals

CONSTANT Delivery

VARIABLES
  outcome,   \* [Delivery -> {"none", "open", "sent", "failed"}]
  shown      \* [Delivery -> Nat]: messages the user of the delivery received

Outcome == {"none", "open", "sent", "failed"}

Init ==
  /\ outcome = [d \in Delivery |-> "none"]
  /\ shown = [d \in Delivery |-> 0]

\* A message reaches the user of a delivery that exists (possibly again).
Show(d) ==
  /\ outcome[d] # "none"
  /\ shown' = [shown EXCEPT ![d] = @ + 1]
  /\ UNCHANGED outcome

Opens(d) == outcome[d] = "none" /\ outcome'[d] = "open"

Settles(d) ==
  /\ outcome[d] = "open"
  /\ \/ outcome'[d] = "failed"
     \/ outcome'[d] = "sent" /\ shown[d] > 0

\* Deliveries of one event open together, those of one batch settle together.
Advance ==
  /\ outcome' \in [Delivery -> Outcome]
  /\ \A d \in Delivery : outcome'[d] = outcome[d] \/ Opens(d) \/ Settles(d)
  /\ UNCHANGED shown

Next == Advance \/ \E d \in Delivery : Show(d)

Spec == Init /\ [][Next]_<<outcome, shown>>
=============================================================================
