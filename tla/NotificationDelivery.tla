------------------------ MODULE NotificationDelivery ------------------------
(***************************************************************************)
(* The notification delivery worker: one asyncio task that moves rows of   *)
(* the notification_deliveries table through                               *)
(*                                                                         *)
(*      pending -> sending -> sent | failed | pending (retry)              *)
(*                                                                         *)
(* by pushing batches to the Telegram bot service (tgbot) over HTTP.  The  *)
(* statuses and reasons are on disk; the attempt counters and the batch in *)
(* flight are in memory and die with the process.  tgbot is an external    *)
(* service: it handles the deliveries of a push one by one, and the push   *)
(* may time out or fail before, while or after it does so.                 *)
(*                                                                         *)
(* Rows are numbered in creation order (ORDER BY created_at, id), so the   *)
(* oldest pending rows are those with the smallest numbers.                *)
(***************************************************************************)
EXTENDS Naturals, FiniteSets

CONSTANTS
  MaxDeliveries,  \* bound: rows ever created
  BatchSize,      \* NOTIFICATION_PUSH_BATCH_SIZE
  MaxAttempts,    \* NotificationDeliveryWorker._max_attempts
  Reports,        \* what tgbot may say of one delivery: "sent" or a reason
  MaxCrashes,     \* bound: process stops (a crash or a cancelled shutdown)
  MaxDbFaults     \* bound: transactions that fail (a locked database)

Temporary == {"transport_timeout", "transport_error"}

Permanent == {"telegram_forbidden", "telegram_chat_not_found",
              "telegram_bad_request", "internal_error"}

RestartStale == "oms_restart_stale_delivery"

KnownReasons == Temporary \cup Permanent \cup {RestartStale}

NoReason == "none"

ASSUME DeliveryAssumption ==
  /\ MaxDeliveries \in Nat
  /\ BatchSize \in Nat \ {0}
  /\ MaxAttempts \in Nat \ {0}
  /\ MaxCrashes \in Nat
  /\ MaxDbFaults \in Nat
  /\ NoReason \notin Reports

Delivery == 1 .. MaxDeliveries

VARIABLES
  status,    \* [Delivery -> Status]: the status column; "none" before INSERT
  reason,    \* [Delivery -> reason]: the failure_reason column
  phase,     \* where the server process is: "down", "idle" or "pushing"
  batch,     \* the deliveries of the push in flight
  attempts,  \* [Delivery -> Nat]: _attempts_by_delivery, 0 when absent
  report,    \* [Delivery -> what tgbot will answer of it, or "unprocessed"]
  late,      \* [Delivery -> Nat]: abandoned pushes tgbot may still handle
  crashes, faults,
  \* History: what no row records, for the properties.
  pushes,    \* [Delivery -> Nat]: pushes that carried the delivery
  shown,     \* [Delivery -> Nat]: Telegram messages its user received
  skipped    \* startups whose stale cleanup failed

worker == <<phase, batch, attempts, report>>
vars == <<status, reason, phase, batch, attempts, report, late, crashes,
          faults, pushes, shown, skipped>>

Status == {"none", "pending", "sending", "sent", "failed"}
Settled == {"sent", "failed"}

Pending == {d \in Delivery : status[d] = "pending"}

\* A reason outside the known set is stored as internal_error.
NormalizeReason(r) == IF r \in KnownReasons THEN r ELSE "internal_error"

\* Faulty variants: one attempt too many, one too few, any reason retried.
RetryOnceTooOften(r, n) == r \in Temporary /\ n <= MaxAttempts
RetryOnceTooFew(r, n) == r \in Temporary /\ n + 1 < MaxAttempts
RetryAnyReason(r, n) == n < MaxAttempts

ShouldRetry(r, n) == r \in Temporary /\ n < MaxAttempts
-----------------------------------------------------------------------------
Init ==
  /\ status = [d \in Delivery |-> "none"]
  /\ reason = [d \in Delivery |-> NoReason]
  /\ phase = "down"
  /\ batch = {}
  /\ attempts = [d \in Delivery |-> 0]
  /\ report = [d \in Delivery |-> "unprocessed"]
  /\ late = [d \in Delivery |-> 0]
  /\ crashes = 0
  /\ faults = 0
  /\ pushes = [d \in Delivery |-> 0]
  /\ shown = [d \in Delivery |-> 0]
  /\ skipped = 0

\* Faulty variants of Startup: rows in flight are queued again; rows being
\* sent are overlooked.
StartupRequeues ==
  /\ phase = "down"
  /\ phase' = "idle"
  /\ status' = [d \in Delivery |-> IF status[d] = "sending" THEN "pending"
                                                           ELSE status[d]]
  /\ UNCHANGED <<reason, batch, attempts, report, late, crashes, faults,
                 pushes, shown, skipped>>

StartupIgnoresSending ==
  LET Stale == {d \in Delivery : status[d] = "pending"} IN
  /\ phase = "down"
  /\ phase' = "idle"
  /\ status' = [d \in Delivery |-> IF d \in Stale THEN "failed" ELSE status[d]]
  /\ reason' = [d \in Delivery |-> IF d \in Stale THEN RestartStale
                                                  ELSE reason[d]]
  /\ UNCHANGED <<batch, attempts, report, late, crashes, faults, pushes,
                 shown, skipped>>

(***************************************************************************)
(* Startup runs the stale cleanup before any task or request: every row    *)
(* that is not settled fails.  The cleanup swallows its own database       *)
(* errors, and then the server starts over the rows as they are.           *)
(***************************************************************************)
Startup ==
  LET Stale == {d \in Delivery : status[d] \in {"pending", "sending"}} IN
  /\ phase = "down"
  /\ phase' = "idle"
  /\ status' = [d \in Delivery |-> IF d \in Stale THEN "failed" ELSE status[d]]
  /\ reason' = [d \in Delivery |-> IF d \in Stale THEN RestartStale
                                                  ELSE reason[d]]
  /\ UNCHANGED <<batch, attempts, report, late, crashes, faults, pushes,
                 shown, skipped>>

StartupWithoutCleanup ==
  /\ phase = "down"
  /\ faults < MaxDbFaults
  /\ faults' = faults + 1
  /\ skipped' = skipped + 1
  /\ phase' = "idle"
  /\ UNCHANGED <<status, reason, batch, attempts, report, late, crashes,
                 pushes, shown>>

(***************************************************************************)
(* An event (a defect, a device going online or offline) inserts one       *)
(* pending row per eligible recipient, all in one transaction.             *)
(***************************************************************************)
CreateDeliveries ==
  LET Fresh == {d \in Delivery : status[d] = "none"} IN
  /\ phase # "down"
  /\ \E new \in Fresh :
       /\ status' = [d \in Delivery |-> IF d \in Fresh /\ d <= new
                                          THEN "pending" ELSE status[d]]
       /\ UNCHANGED <<reason, worker, late, crashes, faults, pushes, shown,
                      skipped>>

\* SELECT ... WHERE status = 'pending' ORDER BY created_at LIMIT batch_size.
IsOldestPending(B) ==
  /\ B # {}
  /\ \A d \in B, e \in Pending \ B : d < e
  /\ Cardinality(B) <= BatchSize
  /\ Cardinality(B) = BatchSize \/ B = Pending

\* The claiming transaction commits before the push starts.
Claim ==
  /\ phase = "idle"
  /\ \E B \in SUBSET Pending :
       /\ IsOldestPending(B)
       /\ batch' = B
       /\ status' = [d \in Delivery |-> IF d \in B THEN "sending"
                                                   ELSE status[d]]
       /\ pushes' = [d \in Delivery |-> IF d \in B THEN pushes[d] + 1
                                                   ELSE pushes[d]]
  /\ phase' = "pushing"
  /\ UNCHANGED <<reason, attempts, report, late, crashes, faults, shown,
                 skipped>>

(***************************************************************************)
(* tgbot handles one delivery of the push.  A "sent" was shown to the      *)
(* user; a "transport_timeout" between tgbot and Telegram may have been.   *)
(***************************************************************************)
TgbotHandles(d) ==
  /\ d \in batch
  /\ report[d] = "unprocessed"
  /\ \E r \in Reports :
       /\ report' = [report EXCEPT ![d] = r]
       /\ \/ /\ r \in {"sent", "transport_timeout"}
             /\ shown' = [shown EXCEPT ![d] = @ + 1]
          \/ /\ r # "sent"
             /\ UNCHANGED shown
  /\ UNCHANGED <<status, reason, phase, batch, attempts, late, crashes,
                 faults, pushes, skipped>>

\* tgbot goes on with a request whose client gave up on it.
TgbotHandlesLate(d) ==
  /\ late[d] > 0
  /\ late' = [late EXCEPT ![d] = @ - 1]
  /\ shown' = [shown EXCEPT ![d] = @ + 1]
  /\ UNCHANGED <<status, reason, worker, crashes, faults, pushes, skipped>>

\* The push in flight ends: what tgbot has not handled yet it may still do.
PushEnds ==
  /\ batch' = {}
  /\ report' = [d \in Delivery |-> "unprocessed"]
  /\ late' = [d \in Delivery |->
                IF d \in batch /\ report[d] = "unprocessed"
                  THEN late[d] + 1 ELSE late[d]]

(***************************************************************************)
(* The reconciling transaction, from the outcome of each delivery of the   *)
(* batch ("sent" or a normalised reason).  The attempt is counted first,   *)
(* and a delivery that settles is forgotten by the counters.               *)
(***************************************************************************)
CountedAttempts(outcome) ==
  [d \in Delivery |->
     IF d \notin batch THEN attempts[d]
     ELSE IF outcome[d] # "sent" /\ ShouldRetry(outcome[d], attempts[d] + 1)
       THEN attempts[d] + 1 ELSE 0]

Reconcile(outcome) ==
  /\ status' = [d \in Delivery |->
       IF d \notin batch THEN status[d]
       ELSE IF outcome[d] = "sent" THEN "sent"
       ELSE IF ShouldRetry(outcome[d], attempts[d] + 1) THEN "pending"
       ELSE "failed"]
  /\ reason' = [d \in Delivery |->
       IF d \notin batch THEN reason[d]
       ELSE IF outcome[d] = "sent" THEN NoReason ELSE outcome[d]]
  /\ attempts' = CountedAttempts(outcome)
  /\ PushEnds
  /\ phase' = "idle"
  /\ UNCHANGED <<crashes, faults, pushes, shown, skipped>>

\* One reason for the whole batch: httpx timed out, or anything else raised.
PushRaises ==
  /\ phase = "pushing"
  /\ \E r \in Temporary : Reconcile([d \in Delivery |-> r])

\* Faulty variant: a delivery the answer leaves out went through.
SilenceIsSent ==
  [d \in Delivery |->
     IF report[d] \in {"unprocessed", "sent"} THEN "sent"
                                             ELSE NormalizeReason(report[d])]

\* A delivery the answer leaves out counts as an internal error.
AnsweredOutcome ==
  [d \in Delivery |->
     CASE report[d] = "unprocessed" -> "internal_error"
       [] report[d] = "sent" -> "sent"
       [] OTHER -> NormalizeReason(report[d])]

PushAnswered ==
  /\ phase = "pushing"
  /\ Reconcile(AnsweredOutcome)

(***************************************************************************)
(* The reconciling transaction fails at BEGIN (nothing was counted) or at  *)
(* COMMIT (the counters in memory moved, the rows did not).  The loop goes *)
(* on; the rows stay "sending" and no later claim selects them.            *)
(***************************************************************************)
ReconcileFails ==
  /\ phase = "pushing"
  /\ faults < MaxDbFaults
  /\ faults' = faults + 1
  /\ \/ UNCHANGED attempts
     \/ \E r \in Temporary : attempts' = CountedAttempts([d \in Delivery |-> r])
     \/ attempts' = CountedAttempts(AnsweredOutcome)
  /\ PushEnds
  /\ phase' = "idle"
  /\ UNCHANGED <<status, reason, crashes, pushes, shown, skipped>>

\* The process stops: a crash, or a shutdown that cancels the worker's task.
Crash ==
  /\ phase # "down"
  /\ crashes < MaxCrashes
  /\ crashes' = crashes + 1
  /\ phase' = "down"
  /\ PushEnds
  /\ attempts' = [d \in Delivery |-> 0]
  /\ UNCHANGED <<status, reason, faults, pushes, shown, skipped>>

Next ==
  \/ Startup
  \/ StartupWithoutCleanup
  \/ CreateDeliveries
  \/ Claim
  \/ \E d \in Delivery : TgbotHandles(d) \/ TgbotHandlesLate(d)
  \/ PushRaises
  \/ PushAnswered
  \/ ReconcileFails
  \/ Crash

(***************************************************************************)
(* run_forever polls for ever, the HTTP client bounds the push, and a      *)
(* stopped server is restarted.  Nothing is asked of tgbot.                *)
(***************************************************************************)
Fairness ==
  /\ WF_vars(Startup \/ StartupWithoutCleanup)
  /\ WF_vars(Claim)
  /\ WF_vars(PushRaises \/ PushAnswered \/ ReconcileFails)

Spec == Init /\ [][Next]_vars
FairSpec == Spec /\ Fairness
-----------------------------------------------------------------------------
TypeOK ==
  /\ status \in [Delivery -> Status]
  /\ reason \in [Delivery -> KnownReasons \cup {NoReason}]
  /\ phase \in {"down", "idle", "pushing"}
  /\ batch \in SUBSET Delivery
  /\ attempts \in [Delivery -> Nat]
  /\ report \in [Delivery -> Reports \cup {"unprocessed"}]
  /\ late \in [Delivery -> Nat]
  /\ crashes \in Nat
  /\ faults \in Nat
  /\ pushes \in [Delivery -> Nat]
  /\ shown \in [Delivery -> Nat]
  /\ skipped \in Nat

(***************************************************************************)
(* However pushes time out, tgbot lags, transactions fail and the process  *)
(* dies (and forgets the attempts), a user is shown one notification at    *)
(* most MaxAttempts times, and at most as often again for each startup     *)
(* whose stale cleanup failed (_should_retry, the startup cleanup).        *)
(***************************************************************************)
MessagesBounded ==
  \A d \in Delivery : shown[d] <= MaxAttempts * (1 + skipped)

(***************************************************************************)
(* "failed" with a temporary reason means the worker used every attempt:   *)
(* no crash, lost counter or rolled back transaction cuts retries short    *)
(* while keeping the temporary reason (_mark_delivery_retry_or_failed).    *)
(***************************************************************************)
GivesUpAfterAllAttempts ==
  \A d \in Delivery :
    status[d] = "failed" /\ reason[d] \in Temporary => pushes[d] >= MaxAttempts

(***************************************************************************)
(* A row waits for another push only after a temporary failure and while   *)
(* attempts are left; a permanent failure is never retried.                *)
(***************************************************************************)
OnlyTemporaryFailuresRequeue ==
  \A d \in Delivery :
    status[d] = "pending" /\ pushes[d] > 0 /\ skipped = 0 =>
      /\ reason[d] \in Temporary
      /\ pushes[d] < MaxAttempts

(***************************************************************************)
(* The detailed worker keeps the promise of the outbox: a settled row      *)
(* never moves again (not even by a later push or a startup cleanup), and  *)
(* "sent" is recorded only of a message its user was shown.                *)
(***************************************************************************)
OutcomeOf(s) == IF s \in {"pending", "sending"} THEN "open" ELSE s

Promise == INSTANCE DeliveryPromise
             WITH outcome <- [d \in Delivery |-> OutcomeOf(status[d])]

KeepsPromise == Promise!Spec

\* A row left "sending" by a push that is over: no claim will select it.
Stranded(d) == status[d] = "sending" /\ d \notin batch

(***************************************************************************)
(* Every delivery settles: retries end, no batch starves an older or a     *)
(* newer row, and a restart settles what it interrupted.  Only a failed    *)
(* transaction (a reconciliation, a startup cleanup) keeps a row back, and *)
(* then it is stranded in "sending".                                       *)
(***************************************************************************)
SettlesOrStrands ==
  \A d \in Delivery :
    status[d] = "pending" ~>
      status[d] \in Settled \/ (Stranded(d) /\ phase # "down" /\ faults > 0)

(***************************************************************************)
(* Only a startup cleanup takes a stranded row out of "sending", and it    *)
(* fails the row, even though its user may have been shown the message.    *)
(***************************************************************************)
OnlyStartupFreesStranded ==
  [][\A d \in Delivery :
       Stranded(d) /\ status'[d] # "sending" =>
         /\ phase = "down"
         /\ status'[d] = "failed"
         /\ reason'[d] = RestartStale]_vars
=============================================================================
