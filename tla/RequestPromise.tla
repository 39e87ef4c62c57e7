---------------------------- MODULE RequestPromise ----------------------------
(***************************************************************************)
(* What a request to a device promises, with no socket, no broker, no      *)
(* timer and no process: it is opened at most once, ends at most once and  *)
(* keeps its end, and ends in success only if its device has answered it,  *)
(* which no device does before it is asked.                                *)
(***************************************************************************)
CONSTANTS
  Command,
  Ending,   \* how a request may end
  Success   \* the ending that tells of an answer

VARIABLES
  outcome,  \* [Command -> {"none", "open"} \cup Ending]
  replied   \* SUBSET Command: those their device has answered

Init ==
  /\ outcome = [c \in Command |-> "none"]
  /\ replied = {}

Opens(c) == outcome[c] = "none" /\ outcome'[c] = "open"

Ends(c) ==
  /\ outcome[c] \in {"none", "open"}
  /\ outcome'[c] \in Ending
  /\ outcome'[c] = Success => c \in replied

\* The end of the process ends several requests at once.
Advance ==
  /\ outcome' \in [Command -> {"none", "open"} \cup Ending]
  /\ \A c \in Command : outcome'[c] = outcome[c] \/ Opens(c) \/ Ends(c)
  /\ UNCHANGED replied

\* A device answers what it was asked, in time or not.
Reply(c) ==
  /\ outcome[c] # "none"
  /\ replied' = replied \cup {c}
  /\ UNCHANGED outcome

Next == Advance \/ \E c \in Command : Reply(c)

Spec == Init /\ [][Next]_<<outcome, replied>>
=============================================================================
