---------------------- MODULE NotificationDelivery_proofs ----------------------
(***************************************************************************)
(* Theorems about the delivery worker, for every number of deliveries,     *)
(* batch size, attempt limit, set of reports and number of crashes and     *)
(* faults.                                                                 *)
(***************************************************************************)
EXTENDS NotificationDelivery, FiniteSetTheorems, WellFoundedInduction, TLAPS

\* Pushes that the startups whose cleanup failed may have added.
Extra == MaxAttempts * skipped

\* A batch exists only during a push, and its rows are "sending".
BatchInv ==
  /\ phase # "pushing" => batch = {}
  /\ \A d \in batch : status[d] = "sending"
  /\ \A d \in Delivery \ batch : report[d] = "unprocessed"

\* Pushes against the attempts the worker remembers, while it remembers them.
PushInv ==
  \A d \in Delivery :
    /\ pushes[d] <= MaxAttempts + Extra
    /\ d \notin batch => attempts[d] <= pushes[d]
    /\ d \in batch =>
         /\ attempts[d] + 1 <= pushes[d]
         /\ pushes[d] <= attempts[d] + 1 + Extra
         /\ attempts[d] < MaxAttempts
    /\ status[d] = "pending" /\ phase # "down" =>
         /\ pushes[d] <= attempts[d] + Extra
         /\ attempts[d] < MaxAttempts
    /\ phase = "down" => attempts[d] = 0
    /\ status[d] = "none" => pushes[d] = 0

\* Every message shown, or still possible, was pushed.
Underway(d) == IF d \in batch /\ report[d] = "unprocessed" THEN 1 ELSE 0

ShownInv ==
  \A d \in Delivery :
    /\ shown[d] + late[d] + Underway(d) <= pushes[d]
    /\ report[d] = "sent" => shown[d] > 0
    /\ status[d] = "sent" => shown[d] > 0

\* What the stored reason says of a row.
ReasonInv ==
  \A d \in Delivery :
    /\ status[d] = "failed" /\ reason[d] \in Temporary =>
         pushes[d] >= MaxAttempts
    /\ status[d] = "pending" /\ pushes[d] > 0 /\ skipped = 0 =>
         reason[d] \in Temporary
    /\ status[d] = "pending" /\ skipped = 0 => pushes[d] < MaxAttempts

IInv == TypeOK /\ BatchInv /\ PushInv /\ ShownInv /\ ReasonInv
-----------------------------------------------------------------------------
USE DeliveryAssumption

\* What a reconciling transaction is given for each delivery.
OutcomeType == [Delivery -> KnownReasons \cup {"sent"}]

LEMMA AnsweredOutcomeType == TypeOK => AnsweredOutcome \in OutcomeType
BY DEF TypeOK, AnsweredOutcome, OutcomeType, NormalizeReason, KnownReasons,
       Permanent

LEMMA RaisedOutcomeType ==
  \A r \in Temporary : [d \in Delivery |-> r] \in OutcomeType
BY DEF OutcomeType, KnownReasons

LEMMA ExtraType == TypeOK => Extra \in Nat
BY DEF TypeOK, Extra

LEMMA ExtraStable == skipped' = skipped => Extra' = Extra
BY DEF Extra

LEMMA ExtraGrows ==
  ASSUME TypeOK, skipped' = skipped + 1
  PROVE  Extra' = Extra + MaxAttempts
BY DEF TypeOK, Extra

LEMMA CountedAttemptsType ==
  ASSUME TypeOK, NEW o PROVE CountedAttempts(o) \in [Delivery -> Nat]
BY DEF TypeOK, CountedAttempts

LEMMA PushEndsType ==
  ASSUME TypeOK, PushEnds
  PROVE  /\ batch' \in SUBSET Delivery
         /\ report' \in [Delivery -> Reports \cup {"unprocessed"}]
         /\ late' \in [Delivery -> Nat]
BY DEF TypeOK, PushEnds

LEMMA ReconcileType ==
  ASSUME TypeOK, NEW o \in OutcomeType, Reconcile(o)
  PROVE  TypeOK'
<1>1. attempts' \in [Delivery -> Nat]
  BY CountedAttemptsType DEF Reconcile
<1>2. status' \in [Delivery -> Status]
  BY DEF Reconcile, TypeOK, Status
<1>3. reason' \in [Delivery -> KnownReasons \cup {NoReason}]
  BY DEF Reconcile, TypeOK, OutcomeType
<1>4. QED
  BY <1>1, <1>2, <1>3, PushEndsType DEF Reconcile, TypeOK

LEMMA TypeStep == TypeOK /\ [Next]_vars => TypeOK'
<1> SUFFICES ASSUME TypeOK, [Next]_vars PROVE TypeOK'
  OBVIOUS
<1>1. CASE Startup
  BY <1>1 DEF Startup, TypeOK, Status, KnownReasons
<1>2. CASE StartupWithoutCleanup
  BY <1>2 DEF StartupWithoutCleanup, TypeOK
<1>3. CASE CreateDeliveries
  BY <1>3 DEF CreateDeliveries, TypeOK, Status, worker
<1>4. CASE Claim
  BY <1>4 DEF Claim, TypeOK, Status, Pending
<1>5. ASSUME NEW d \in Delivery, TgbotHandles(d) PROVE TypeOK'
  BY <1>5 DEF TgbotHandles, TypeOK
<1>6. ASSUME NEW d \in Delivery, TgbotHandlesLate(d) PROVE TypeOK'
  BY <1>6 DEF TgbotHandlesLate, TypeOK, worker
<1>7. CASE PushRaises
  BY <1>7, RaisedOutcomeType, ReconcileType DEF PushRaises
<1>8. CASE PushAnswered
  BY <1>8, AnsweredOutcomeType, ReconcileType DEF PushAnswered
<1>9. CASE ReconcileFails
  <2>1. attempts' \in [Delivery -> Nat]
    BY <1>9, CountedAttemptsType DEF ReconcileFails, TypeOK
  <2>2. QED
    BY <2>1, <1>9, PushEndsType DEF ReconcileFails, TypeOK
<1>10. CASE Crash
  BY <1>10, PushEndsType DEF Crash, TypeOK
<1>11. CASE UNCHANGED vars
  BY <1>11 DEF vars, TypeOK
<1>12. QED
  BY <1>1, <1>2, <1>3, <1>4, <1>5, <1>6, <1>7, <1>8, <1>9, <1>10, <1>11
     DEF Next

(***************************************************************************)
(* Type correctness of the delivery worker.                                *)
(***************************************************************************)
THEOREM TypeCorrect == Spec => []TypeOK
<1>1. Init => TypeOK
  BY DEF Init, TypeOK, Status
<1>2. QED
  BY <1>1, TypeStep, PTL DEF Spec
-----------------------------------------------------------------------------
(***************************************************************************)
(* The reconciling transaction keeps the invariant whatever the outcomes,  *)
(* as long as "sent" comes from a report of tgbot.                         *)
(***************************************************************************)
LEMMA PushEndsUnderway ==
  ASSUME IInv, PushEnds, UNCHANGED <<pushes, shown>>, NEW d \in Delivery
  PROVE  /\ shown'[d] + late'[d] + Underway(d)' <= pushes'[d]
         /\ report'[d] # "sent"
<1>1. report'[d] = "unprocessed" /\ d \notin batch'
  BY DEF PushEnds
<1>2. late'[d] = late[d] + Underway(d)
  BY DEF PushEnds, Underway, IInv, TypeOK
<1>3. Underway(d)' = 0
  BY <1>1 DEF Underway
<1>4. Underway(d) \in Nat
  BY DEF Underway
<1>5. QED
  BY <1>1, <1>2, <1>3, <1>4 DEF IInv, TypeOK, ShownInv

LEMMA ReconcileKeepsInv ==
  ASSUME IInv, phase = "pushing", NEW o \in OutcomeType, Reconcile(o),
         \A d \in batch : o[d] = "sent" => report[d] = "sent"
  PROVE  IInv'
<1> USE DEF IInv
<1>1. TypeOK'
  BY ReconcileType
<1>2. BatchInv'
  BY DEF Reconcile, PushEnds, BatchInv
<1>3. Extra \in Nat /\ Extra' = Extra
  BY ExtraType, ExtraStable DEF Reconcile
<1>4. PushInv'
  <2> SUFFICES ASSUME NEW d \in Delivery PROVE PushInv!(d)'
    BY DEF PushInv
  <2>1. CASE d \notin batch
    BY <2>1, <1>3 DEF PushInv, Reconcile, PushEnds, CountedAttempts, TypeOK
  <2>2. CASE d \in batch
    BY <2>2, <1>3
       DEF PushInv, Reconcile, PushEnds, CountedAttempts, TypeOK, ShouldRetry
  <2>3. QED
    BY <2>1, <2>2
<1>5. ShownInv'
  <2> SUFFICES ASSUME NEW d \in Delivery PROVE ShownInv!(d)'
    BY DEF ShownInv
  <2>1. status'[d] = "sent" => shown[d] > 0
    BY DEF Reconcile, ShownInv, TypeOK
  <2>2. QED
    BY <2>1, PushEndsUnderway DEF Reconcile
<1>6. ReasonInv'
  <2> SUFFICES ASSUME NEW d \in Delivery PROVE ReasonInv!(d)'
    BY DEF ReasonInv
  <2>1. CASE d \notin batch
    BY <2>1 DEF ReasonInv, Reconcile, TypeOK
  <2>2. CASE d \in batch
    <3>1. pushes[d] <= attempts[d] + 1 + Extra /\ attempts[d] + 1 <= pushes[d]
      BY <2>2 DEF PushInv
    <3>2. skipped = 0 => Extra = 0
      BY DEF Extra
    <3>3. QED
      BY <2>2, <1>3, <3>1, <3>2
         DEF Reconcile, TypeOK, ShouldRetry
  <2>3. QED
    BY <2>1, <2>2
<1>7. QED
  BY <1>1, <1>2, <1>4, <1>5, <1>6

(***************************************************************************)
(* The inductive invariant of the delivery worker.                         *)
(***************************************************************************)
THEOREM Invariance == Spec => []IInv
<1>1. Init => IInv
  BY DEF Init, IInv, TypeOK, Status, BatchInv, PushInv, ShownInv, ReasonInv,
         Underway, Extra
<1>2. IInv /\ [Next]_vars => IInv'
  <2> SUFFICES ASSUME IInv, [Next]_vars, TypeOK' PROVE IInv'
    BY TypeStep DEF IInv
  <2> USE DEF IInv
  <2>0. Extra \in Nat /\ (skipped' = skipped => Extra' = Extra)
    BY ExtraType, ExtraStable
  <2>1. CASE Startup
    <3> USE <2>1, <2>0 DEF Startup, TypeOK
    <3>1. BatchInv'
      BY DEF BatchInv
    <3>2. PushInv'
      BY DEF PushInv, BatchInv
    <3>3. ShownInv'
      BY DEF ShownInv, Underway
    <3>4. ReasonInv'
      BY DEF ReasonInv, RestartStale, Temporary
    <3>5. QED
      BY <3>1, <3>2, <3>3, <3>4
  <2>2. CASE StartupWithoutCleanup
    <3>1. Extra' = Extra + MaxAttempts /\ skipped' # 0
      BY <2>2, ExtraGrows DEF StartupWithoutCleanup, TypeOK
    <3> USE <2>2, <2>0, <3>1 DEF StartupWithoutCleanup, TypeOK
    <3>2. BatchInv'
      BY DEF BatchInv
    <3>3. PushInv'
      BY DEF PushInv, BatchInv
    <3>4. ShownInv'
      BY DEF ShownInv, Underway
    <3>5. ReasonInv'
      BY DEF ReasonInv
    <3>6. QED
      BY <3>2, <3>3, <3>4, <3>5
  <2>3. CASE CreateDeliveries
    <3> USE <2>3, <2>0 DEF CreateDeliveries, TypeOK, worker
    <3>1. BatchInv'
      BY DEF BatchInv
    <3>2. PushInv'
      BY DEF PushInv, BatchInv
    <3>3. ShownInv'
      BY DEF ShownInv, Underway
    <3>4. ReasonInv'
      BY DEF ReasonInv, PushInv
    <3>5. QED
      BY <3>1, <3>2, <3>3, <3>4
  <2>4. CASE Claim
    <3> USE <2>4, <2>0 DEF Claim, TypeOK, Pending
    <3>1. BatchInv'
      BY DEF BatchInv
    <3>2. PushInv'
      BY DEF PushInv, BatchInv
    <3>3. ShownInv'
      BY DEF ShownInv, Underway, BatchInv
    <3>4. ReasonInv'
      BY DEF ReasonInv
    <3>5. QED
      BY <3>1, <3>2, <3>3, <3>4
  <2>5. ASSUME NEW t \in Delivery, TgbotHandles(t) PROVE IInv'
    <3> USE <2>5, <2>0 DEF TgbotHandles, TypeOK
    <3>1. BatchInv'
      BY DEF BatchInv
    <3>2. PushInv'
      BY DEF PushInv
    <3>3. ShownInv'
      BY DeliveryAssumption DEF ShownInv, Underway
    <3>4. ReasonInv'
      BY DEF ReasonInv
    <3>5. QED
      BY <3>1, <3>2, <3>3, <3>4
  <2>6. ASSUME NEW t \in Delivery, TgbotHandlesLate(t) PROVE IInv'
    <3> USE <2>6, <2>0 DEF TgbotHandlesLate, TypeOK, worker
    <3>1. BatchInv'
      BY DEF BatchInv
    <3>2. PushInv'
      BY DEF PushInv
    <3>3. ShownInv'
      BY DEF ShownInv, Underway
    <3>4. ReasonInv'
      BY DEF ReasonInv
    <3>5. QED
      BY <3>1, <3>2, <3>3, <3>4
  <2>7. CASE PushRaises
    <3>1. PICK r \in Temporary : Reconcile([d \in Delivery |-> r])
      BY <2>7 DEF PushRaises
    <3>2. [d \in Delivery |-> r] \in OutcomeType
      BY RaisedOutcomeType
    <3>3. \A d \in batch : [e \in Delivery |-> r][d] # "sent"
      BY DEF TypeOK, Temporary
    <3>4. QED
      BY <2>7, <3>1, <3>2, <3>3, ReconcileKeepsInv DEF PushRaises
  <2>8. CASE PushAnswered
    <3>1. \A d \in batch : AnsweredOutcome[d] = "sent" => report[d] = "sent"
      BY DEF AnsweredOutcome, TypeOK, NormalizeReason, KnownReasons, Temporary,
             Permanent, RestartStale
    <3>2. QED
      BY <2>8, <3>1, AnsweredOutcomeType, ReconcileKeepsInv DEF PushAnswered
  <2>9. CASE ReconcileFails
    <3> USE <2>9, <2>0 DEF ReconcileFails
    <3>1. BatchInv'
      BY DEF BatchInv, PushEnds
    <3>2. \A d \in Delivery : attempts'[d] <= pushes[d]
      BY DEF CountedAttempts, PushInv, TypeOK
    <3>3. \A d \in Delivery :
            status[d] = "pending" => d \notin batch /\ attempts'[d] = attempts[d]
      BY DEF CountedAttempts, BatchInv, TypeOK
    <3>4. PushInv'
      BY <3>2, <3>3 DEF PushInv, PushEnds, TypeOK
    <3>5. ShownInv'
      BY PushEndsUnderway DEF ShownInv
    <3>6. ReasonInv'
      BY DEF ReasonInv
    <3>7. QED
      BY <3>1, <3>4, <3>5, <3>6
  <2>10. CASE Crash
    <3> USE <2>10, <2>0 DEF Crash
    <3>1. BatchInv'
      BY DEF BatchInv, PushEnds
    <3>2. PushInv'
      BY DEF PushInv, PushEnds, TypeOK
    <3>3. ShownInv'
      BY PushEndsUnderway DEF ShownInv
    <3>4. ReasonInv'
      BY DEF ReasonInv
    <3>5. QED
      BY <3>1, <3>2, <3>3, <3>4
  <2>11. CASE UNCHANGED vars
    BY <2>11, <2>0
       DEF vars, BatchInv, PushInv, ShownInv, ReasonInv, Underway
  <2>12. QED
    BY <2>1, <2>2, <2>3, <2>4, <2>5, <2>6, <2>7, <2>8, <2>9, <2>10, <2>11
       DEF Next
<1>3. QED
  BY <1>1, <1>2, PTL DEF Spec

(***************************************************************************)
(* A user is shown one notification at most MaxAttempts times, and at most *)
(* as often again for each startup whose cleanup failed.                   *)
(***************************************************************************)
THEOREM MessagesAreBounded == Spec => []MessagesBounded
<1>1. IInv => MessagesBounded
  <2> SUFFICES ASSUME IInv, NEW d \in Delivery
               PROVE  shown[d] <= MaxAttempts * (1 + skipped)
    BY DEF MessagesBounded
  <2>1. shown[d] <= pushes[d]
    BY DEF IInv, TypeOK, ShownInv, Underway
  <2>2. pushes[d] <= MaxAttempts + MaxAttempts * skipped
    BY DEF IInv, PushInv, Extra
  <2>3. MaxAttempts + MaxAttempts * skipped = MaxAttempts * (1 + skipped)
    BY DEF IInv, TypeOK
  <2>4. MaxAttempts * (1 + skipped) \in Nat
    BY DEF IInv, TypeOK
  <2>5. QED
    BY <2>1, <2>2, <2>3, <2>4 DEF IInv, TypeOK
<1>2. QED
  BY <1>1, Invariance, PTL

(***************************************************************************)
(* A row fails for a temporary reason only after MaxAttempts pushes.       *)
(***************************************************************************)
THEOREM RetriesAreExhausted == Spec => []GivesUpAfterAllAttempts
<1>1. IInv => GivesUpAfterAllAttempts
  BY DEF IInv, ReasonInv, GivesUpAfterAllAttempts
<1>2. QED
  BY <1>1, Invariance, PTL

(***************************************************************************)
(* Only a temporary failure puts a row back, with attempts left.           *)
(***************************************************************************)
THEOREM RequeuesAreTemporary == Spec => []OnlyTemporaryFailuresRequeue
<1>1. IInv => OnlyTemporaryFailuresRequeue
  BY DEF IInv, ReasonInv, OnlyTemporaryFailuresRequeue
<1>2. QED
  BY <1>1, Invariance, PTL

(***************************************************************************)
(* A stranded row leaves "sending" only by a startup cleanup.              *)
(***************************************************************************)
THEOREM StrandedWaitForStartup == Spec => OnlyStartupFreesStranded
<1> DEFINE A == \A d \in Delivery :
                  Stranded(d) /\ status'[d] # "sending" =>
                    /\ phase = "down"
                    /\ status'[d] = "failed"
                    /\ reason'[d] = RestartStale
<1>1. IInv /\ [Next]_vars => [A]_vars
  <2> SUFFICES ASSUME IInv, Next, NEW d \in Delivery,
                      Stranded(d), status'[d] # "sending"
               PROVE  Startup /\ status'[d] = "failed"
                              /\ reason'[d] = RestartStale
    BY DEF Startup
  <2> USE DEF Stranded, IInv, TypeOK
  <2>1. CASE Startup
    BY <2>1 DEF Startup
  <2>2. ~ CreateDeliveries
    BY DEF CreateDeliveries
  <2>3. ~ Claim
    BY DEF Claim, Pending
  <2>4. ~ PushRaises /\ ~ PushAnswered
    BY DEF PushRaises, PushAnswered, Reconcile
  <2>5. status' = status => FALSE
    OBVIOUS
  <2>6. QED
    BY <2>1, <2>2, <2>3, <2>4, <2>5
       DEF Next, StartupWithoutCleanup, TgbotHandles, TgbotHandlesLate,
           ReconcileFails, Crash
<1>2. QED
  BY <1>1, Invariance, PTL DEF Spec, OnlyStartupFreesStranded

(***************************************************************************)
(* The worker implements the promise of the outbox: rows of one event open *)
(* together, rows of one batch (or of one startup cleanup) settle          *)
(* together, and everything else stutters or shows a message.              *)
(***************************************************************************)
THEOREM WorkerKeepsPromise == Spec => KeepsPromise
<1> DEFINE out == [d \in Delivery |-> OutcomeOf(status[d])]
<1>1. Init => Promise!Init
  BY DEF Init, Promise!Init, OutcomeOf
<1>2. IInv /\ TypeOK' /\ [Next]_vars => [Promise!Next]_<<out, shown>>
  <2> SUFFICES ASSUME IInv, TypeOK', [Next]_vars
               PROVE  Promise!Next \/ UNCHANGED <<out, shown>>
    OBVIOUS
  <2> USE DEF IInv
  <2>1. ASSUME UNCHANGED shown,
               \A d \in Delivery :
                 \/ OutcomeOf(status'[d]) = OutcomeOf(status[d])
                 \/ status[d] = "none" /\ status'[d] = "pending"
                 \/ /\ status[d] \in {"pending", "sending"}
                    /\ \/ status'[d] = "failed"
                       \/ status'[d] = "sent" /\ shown[d] > 0
        PROVE  Promise!Next
    <3>1. out' \in [Delivery -> Promise!Outcome]
      BY DEF TypeOK, Status, OutcomeOf, Promise!Outcome
    <3>2. ASSUME NEW d \in Delivery
          PROVE  out'[d] = out[d] \/ Promise!Opens(d) \/ Promise!Settles(d)
      BY <2>1 DEF OutcomeOf, Promise!Opens, Promise!Settles
    <3>3. QED
      BY <2>1, <3>1, <3>2 DEF Promise!Next, Promise!Advance
  <2>2. CASE Startup
    BY <2>1, <2>2 DEF Startup, TypeOK
  <2>3. CASE CreateDeliveries
    BY <2>1, <2>3 DEF CreateDeliveries, TypeOK
  <2>4. CASE Claim
    BY <2>1, <2>4 DEF Claim, TypeOK, Pending, OutcomeOf
  <2>5. ASSUME NEW t \in Delivery, TgbotHandles(t)
        PROVE  Promise!Next \/ UNCHANGED <<out, shown>>
    <3>1. status[t] = "sending"
      BY <2>5 DEF TgbotHandles, BatchInv
    <3>2. CASE UNCHANGED shown
      BY <3>2, <2>5 DEF TgbotHandles
    <3>3. CASE shown' = [shown EXCEPT ![t] = @ + 1]
      BY <3>1, <3>3, <2>5
         DEF TgbotHandles, Promise!Next, Promise!Show, OutcomeOf
    <3>4. QED
      BY <3>2, <3>3, <2>5 DEF TgbotHandles
  <2>6. ASSUME NEW t \in Delivery, TgbotHandlesLate(t)
        PROVE  Promise!Next \/ UNCHANGED <<out, shown>>
    <3>1. pushes[t] > 0
      BY <2>6 DEF TgbotHandlesLate, ShownInv, Underway, TypeOK
    <3>2. status[t] # "none"
      BY <3>1 DEF PushInv, TypeOK
    <3>3. QED
      BY <3>2, <2>6
         DEF TgbotHandlesLate, Promise!Next, Promise!Show, OutcomeOf
  <2>7. ASSUME NEW o \in OutcomeType, Reconcile(o),
               \A d \in batch : o[d] = "sent" => report[d] = "sent"
        PROVE  Promise!Next
    BY <2>1, <2>7 DEF Reconcile, BatchInv, ShownInv, TypeOK, OutcomeOf
  <2>8. CASE PushRaises
    <3>1. PICK r \in Temporary : Reconcile([d \in Delivery |-> r])
      BY <2>8 DEF PushRaises
    <3>2. \A d \in batch : [e \in Delivery |-> r][d] # "sent"
      BY DEF TypeOK, Temporary
    <3>3. QED
      BY <3>1, <3>2, <2>7, RaisedOutcomeType
  <2>9. CASE PushAnswered
    <3>1. \A d \in batch : AnsweredOutcome[d] = "sent" => report[d] = "sent"
      BY DEF AnsweredOutcome, TypeOK, NormalizeReason, KnownReasons, Temporary,
             Permanent, RestartStale
    <3>2. QED
      BY <2>9, <3>1, <2>7, AnsweredOutcomeType DEF PushAnswered
  <2>10. CASE UNCHANGED <<status, shown>>
    BY <2>10
  <2>11. QED
    BY <2>2, <2>3, <2>4, <2>5, <2>6, <2>8, <2>9, <2>10
       DEF Next, StartupWithoutCleanup, ReconcileFails, Crash, vars
<1>3. QED
  BY <1>1, <1>2, Invariance, TypeCorrect, PTL
     DEF Spec, KeepsPromise, Promise!Spec
-----------------------------------------------------------------------------
\* What the claim reads: sets of the oldest pending rows.
Oldest(B) == B \in SUBSET Pending /\ \A d \in B, e \in Pending \ B : d < e

Counts(B) == IsFiniteSet(B) /\ Cardinality(B) \in Nat

LEMMA PendingIsFinite ==
  \A B \in SUBSET Pending :
    Counts(B) /\ \A C \in SUBSET B : /\ Cardinality(C) <= Cardinality(B)
                                     /\ Cardinality(C) = Cardinality(B) => C = B
<1>1. IsFiniteSet(Delivery)
  BY FS_Interval DEF Delivery
<1>2. ASSUME NEW B \in SUBSET Pending PROVE IsFiniteSet(B)
  BY <1>1, FS_Subset DEF Pending
<1>3. ASSUME NEW B \in SUBSET Pending, NEW C \in SUBSET B
      PROVE  /\ Cardinality(C) <= Cardinality(B)
             /\ Cardinality(C) = Cardinality(B) => C = B
  BY <1>2, FS_Subset
<1> QED BY <1>2, <1>3, FS_CardinalityType DEF Counts

\* Of two sets of oldest rows one contains the other.
LEMMA OldestAreNested ==
  ASSUME NEW B, NEW C, Oldest(B), Oldest(C)
  PROVE  B \subseteq C \/ C \subseteq B
<1> SUFFICES ASSUME NEW b \in B \ C, NEW c \in C \ B PROVE FALSE
  OBVIOUS
<1>1. b \in Pending \ C /\ c \in Pending \ B
  BY DEF Oldest
<1>2. b < c /\ c < b
  BY <1>1 DEF Oldest
<1>3. b \in Nat /\ c \in Nat
  BY <1>1 DEF Pending, Delivery
<1> QED BY <1>2, <1>3

\* Every set of natural numbers but the empty one has a least element.
Below == {p \in Nat \X Nat : p[1] < p[2]}

LEMMA Least ==
  ASSUME NEW T, T \subseteq Nat, T # {}
  PROVE  \E x \in T : \A y \in T : x <= y
<1>1. IsWellFoundedOn(Below, Nat)
  BY NatLessThanWellFounded, Zenon DEF OpToRel, Below
<1>2. PICK x \in T : \A y \in T : ~(<<y, x>> \in Below)
  BY <1>1, WFMin
<1>3. ASSUME NEW y \in T PROVE x <= y
  <2>1. x \in Nat /\ y \in Nat
    OBVIOUS
  <2>2. ~(<<y, x>>[1] < <<y, x>>[2])
    BY <1>2, <2>1, Zenon DEF Below
  <2> QED BY <2>1, <2>2
<1> QED BY <1>3

\* The next oldest row can join a set that leaves one out.
LEMMA NextOldest ==
  ASSUME NEW B, Oldest(B), B # Pending
  PROVE  \E C : Oldest(C) /\ Cardinality(C) = Cardinality(B) + 1
<1>1. Pending \ B # {} /\ Pending \ B \subseteq Nat
  <2>1. Pending \subseteq Nat
    BY DEF Pending, Delivery
  <2>2. B \subseteq Pending
    BY DEF Oldest
  <2> QED BY <2>1, <2>2
<1>2. PICK d \in Pending \ B : \A e \in Pending \ B : d <= e
  BY <1>1, Least
<1>3. Oldest(B \cup {d})
  <2>1. ASSUME NEW b \in B \cup {d}, NEW e \in Pending \ (B \cup {d})
        PROVE  b < e
    <3>1. CASE b = d
      BY <1>1, <1>2, <3>1
    <3>2. CASE b \in B
      BY <3>2 DEF Oldest
    <3> QED BY <3>1, <3>2
  <2> QED BY <1>2, <2>1 DEF Oldest
<1>4. IsFiniteSet(B)
  BY PendingIsFinite DEF Oldest, Counts
<1>5. Cardinality(B \cup {d}) = Cardinality(B) + 1
  BY <1>2, <1>4, FS_AddElement
<1> QED BY <1>3, <1>5

(***************************************************************************)
(* The claim's query is answered in one way: while rows are pending there  *)
(* is exactly one batch of the oldest of them, BatchSize or all, so a      *)
(* claim is never stuck, and rows that are retried keep their turn by age  *)
(* (ORDER BY created_at LIMIT, notification_delivery_worker.py:91).        *)
(***************************************************************************)
THEOREM ClaimFindsBatch ==
  Pending # {} =>
    \E B \in SUBSET Pending :
      IsOldestPending(B) /\ \A C \in SUBSET Pending : IsOldestPending(C) => C = B
<1> SUFFICES ASSUME Pending # {}
             PROVE  \E B \in SUBSET Pending :
                      /\ IsOldestPending(B)
                      /\ \A C \in SUBSET Pending : IsOldestPending(C) => C = B
  OBVIOUS
<1> DEFINE Fits(B) == Oldest(B) /\ Cardinality(B) <= BatchSize
           Room == {n \in 0 .. BatchSize :
                      \E B \in SUBSET Pending : Fits(B) /\ n = BatchSize - Cardinality(B)}
<1>1. \A B \in SUBSET Pending : Cardinality(B) \in Nat
  BY PendingIsFinite DEF Counts
<1>2. Room # {} /\ Room \subseteq Nat
  <2>1. Oldest({}) /\ Cardinality({}) = 0
    BY FS_EmptySet DEF Oldest
  <2>2. Fits({}) /\ BatchSize = BatchSize - Cardinality({})
    BY <2>1
  <2> QED BY <2>2
<1>3. PICK n \in Room : \A m \in Room : n <= m
  BY <1>2, Least
<1>4. PICK B \in SUBSET Pending : Fits(B) /\ n = BatchSize - Cardinality(B)
  OBVIOUS
<1>5. Cardinality(B) = BatchSize \/ B = Pending
  <2> SUFFICES ASSUME Cardinality(B) # BatchSize, B # Pending PROVE FALSE
    OBVIOUS
  <2>1. PICK C : Oldest(C) /\ Cardinality(C) = Cardinality(B) + 1
    BY <1>4, NextOldest
  <2>2. C \in SUBSET Pending /\ Cardinality(C) <= BatchSize
    BY <1>1, <1>4, <2>1 DEF Oldest
  <2>3. BatchSize - Cardinality(C) \in Room
    BY <1>1, <2>1, <2>2
  <2> QED BY <1>1, <1>3, <1>4, <2>1, <2>3
<1>6. B # {}
  BY <1>5, FS_EmptySet
<1>7. IsOldestPending(B)
  BY <1>4, <1>5, <1>6 DEF IsOldestPending, Oldest
<1>8. ASSUME NEW C \in SUBSET Pending, IsOldestPending(C) PROVE C = B
  <2>1. Oldest(C) /\ Cardinality(C) <= BatchSize
    BY <1>8 DEF IsOldestPending, Oldest
  <2>2. CASE B \subseteq C
    <3>1. Cardinality(B) = Cardinality(C) => B = C
      BY <2>2, PendingIsFinite
    <3>2. Cardinality(B) <= Cardinality(C)
      BY <2>2, PendingIsFinite
    <3>3. CASE B = Pending
      BY <2>2, <3>3
    <3> QED BY <1>1, <1>5, <2>1, <3>1, <3>2, <3>3
  <2>3. CASE C \subseteq B
    <3>1. Cardinality(C) = Cardinality(B) => C = B
      BY <2>3, PendingIsFinite
    <3>2. Cardinality(C) <= Cardinality(B)
      BY <2>3, PendingIsFinite
    <3>3. Cardinality(C) = BatchSize \/ C = Pending
      BY <1>8 DEF IsOldestPending
    <3> QED BY <1>1, <1>4, <2>3, <3>1, <3>2, <3>3
  <2> QED BY <1>4, <2>1, <2>2, <2>3, OldestAreNested
<1> QED BY <1>7, <1>8
=============================================================================
