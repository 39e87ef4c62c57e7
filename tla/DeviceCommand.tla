---------------------------- MODULE DeviceCommand ----------------------------
(***************************************************************************)
(* A bot user's device commands: POST /bot/v1/devices/{device_id}/commands *)
(* keeps a row of device_commands for each command it sends over the       *)
(* realtime link, and GET /bot/v1/commands/{command_id} shows the row.     *)
(*                                                                         *)
(*      queued -> sent -> succeeded | failed | running                     *)
(*                                                                         *)
(* The handler is a coroutine with blocking SQL: between its INSERT and    *)
(* the send, and between the answer and the last UPDATE, it does not       *)
(* suspend, so only a failed transaction or the end of the process can     *)
(* come between.  Each Command of the link is one such request.            *)
(***************************************************************************)
EXTENDS ConnectorLink

CONSTANT MaxRowFaults  \* bound: writes of device_commands that fail

ASSUME CommandAssumption == MaxRowFaults \in Nat

VARIABLES
  row,        \* [Command -> Row]: the status column; "none" before INSERT
  rowFaults,
  \* History, [Command -> Obstacle]: what kept the handler from finishing the
  \* row, if the end of the process did not come while it waited.
  obstacle

table == <<row, rowFaults, obstacle>>
commandVars == <<vars, table>>

Row == {"none", "queued", "sent", "succeeded", "failed", "running"}
Final == {"succeeded", "failed", "running"}

\* A write of the row failed, the process stopped before the send, or the
\* answer could not be stored.
Obstacle == {"none", "write", "stop", "answer"}

CommandInit ==
  /\ Init
  /\ row = [c \in Command |-> "none"]
  /\ rowFaults = 0
  /\ obstacle = [c \in Command |-> "none"]
-----------------------------------------------------------------------------
\* An UPDATE of the row is committed, or raises and the request ends in a 500.
Write(c, status) ==
  \/ /\ row' = [row EXCEPT ![c] = status]
     /\ UNCHANGED <<rowFaults, obstacle>>
  \/ /\ rowFaults < MaxRowFaults
     /\ rowFaults' = rowFaults + 1
     /\ obstacle' = [obstacle EXCEPT ![c] = "write"]
     /\ row' = [row EXCEPT ![c] = "sent"]

(***************************************************************************)
(* The row is inserted, marked sent, and the request goes out; without a   *)
(* connection the row fails at once.                                       *)
(***************************************************************************)
Submit(c, d) ==
  /\ row[c] = "none"
  /\ Dispatch(c, d)
  /\ row' = [row EXCEPT ![c] = "sent"]
  /\ UNCHANGED <<rowFaults, obstacle>>

SubmitOffline(c, d) ==
  /\ row[c] = "none"
  /\ NotConnected(c, d)
  /\ Write(c, "failed")

\* Marking the row sent fails: it stays queued, and nothing is sent.
MarkSentFails(c) ==
  /\ row[c] = "none"
  /\ rowFaults < MaxRowFaults
  /\ rowFaults' = rowFaults + 1
  /\ obstacle' = [obstacle EXCEPT ![c] = "write"]
  /\ row' = [row EXCEPT ![c] = "queued"]
  /\ UNCHANGED vars

\* The process stops while it handles a request, before anything is sent.
CrashInSubmit(c) ==
  /\ row[c] = "none"
  /\ Crash
  /\ \E status \in {"queued", "sent"} : row' = [row EXCEPT ![c] = status]
  /\ obstacle' = [obstacle EXCEPT ![c] = "stop"]
  /\ UNCHANGED rowFaults

\* Faulty variants: a timeout counts as success; a timeout leaves the row as
\* it is.
FinishesAsSucceeded(c) ==
  \/ SendRaises(c) /\ Write(c, "failed")
  \/ Returns(c) /\ Write(c, "succeeded")

FinishesOnAnswer(c) ==
  \/ SendRaises(c) /\ Write(c, "failed")
  \/ /\ Returns(c)
     /\ \/ call'[c] = "timeout" /\ UNCHANGED table
        \/ call'[c] = "answered" /\ Write(c, "succeeded")

\* An answer that cannot be stored: its status is no string (nothing checks
\* it before .strip()), it names a blob the server does not have (the foreign
\* key), or SQLite cannot encode its text.  The request ends in a 500, and the
\* row stays sent.
RefusesAnswer(c) ==
  /\ obstacle' = [obstacle EXCEPT ![c] = "answer"]
  /\ UNCHANGED <<row, rowFaults>>

(***************************************************************************)
(* send_command returns or raises, and the row says how.  The answer's     *)
(* status decides between succeeded and failed.                            *)
(***************************************************************************)
Finishes(c) ==
  \/ SendRaises(c) /\ Write(c, "failed")
  \/ /\ Returns(c)
     /\ \/ call'[c] = "timeout" /\ Write(c, "running")
        \/ /\ call'[c] = "answered"
           /\ \/ \E status \in {"succeeded", "failed"} : Write(c, status)
              \/ RefusesAnswer(c)

CommandWait(c) ==
  \/ (Sent(c) \/ TimerFires(c)) /\ UNCHANGED table
  \/ Finishes(c)

LinkStep ==
  /\ (\E s \in Socket : HandlerStep(s)) \/ ConnectorStep \/ Crash
  /\ UNCHANGED table

CommandNext ==
  \/ \E c \in Command, d \in Device : Submit(c, d) \/ SubmitOffline(c, d)
  \/ \E c \in Command : MarkSentFails(c) \/ CrashInSubmit(c) \/ CommandWait(c)
  \/ LinkStep

(***************************************************************************)
(* The loop runs what is ready, as in the link.                            *)
(***************************************************************************)
CommandFairness ==
  /\ \A c \in Command : WF_commandVars(CommandWait(c))
  /\ \A s \in Socket :
       /\ WF_commandVars(OldClosed(s) /\ UNCHANGED table)
       /\ WF_commandVars((Accept(s) \/ HandlerDies(s)) /\ UNCHANGED table)
       /\ WF_commandVars(/\ \/ ReceiveEnds(s)
                            \/ \E c \in Command : ReceiveAnswer(s, c)
                         /\ UNCHANGED table)
       /\ WF_commandVars((Resolve(s) \/ RecordFails(s)) /\ UNCHANGED table)

CommandSpec == CommandInit /\ [][CommandNext]_commandVars
FairCommandSpec == CommandSpec /\ CommandFairness
-----------------------------------------------------------------------------
CommandTypeOK ==
  /\ TypeOK
  /\ row \in [Command -> Row]
  /\ rowFaults \in Nat
  /\ obstacle \in [Command -> Obstacle]

(***************************************************************************)
(* What a user is shown of a command is the promise of a request, too: a   *)
(* row ends at most once, a final status never changes, no row goes back,  *)
(* and a row says succeeded only if the user's device has answered this    *)
(* very command, however late, twice or crosswise answers come.            *)
(***************************************************************************)
RowStand(x) == IF x \in {"queued", "sent"} THEN "open" ELSE x

Rows == INSTANCE RequestPromise WITH
          outcome <- [c \in Command |-> RowStand(row[c])], replied <- Replied,
          Ending <- Final, Success <- "succeeded"

KeepsCommandPromise == Rows!Spec

(***************************************************************************)
(* Behind a request that is over, a row is left queued or sent exactly if  *)
(* a write of its own failed, its answer could not be stored (so it was    *)
(* answered), or the process stopped before the send or during the wait;   *)
(* no timeout, late or crosswise answer or reconnection leaves one.        *)
(***************************************************************************)
OpenRowsAreExplained ==
  \A c \in Command : call[c] \notin InCall =>
    /\ row[c] \in {"queued", "sent"} <=> obstacle[c] # "none" \/ call[c] = "lost"
    /\ obstacle[c] = "write" => rowFaults > 0
    /\ obstacle[c] = "stop" \/ call[c] = "lost" => crashes > 0
    /\ obstacle[c] = "answer" => call[c] = "answered"

(***************************************************************************)
(* Every command sent reaches a final status, unless an obstacle or the    *)
(* end of the process came between.                                        *)
(***************************************************************************)
CommandsFinish ==
  \A c \in Command :
    row[c] = "sent" ~>
      row[c] \in Final \/ obstacle[c] # "none" \/ call[c] = "lost"
=============================================================================
