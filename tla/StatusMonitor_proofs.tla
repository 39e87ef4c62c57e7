------------------------- MODULE StatusMonitor_proofs -------------------------
(***************************************************************************)
(* Theorems about the status monitor, for any devices, threshold, grace    *)
(* period and number of restarts and failed iterations.                    *)
(***************************************************************************)
EXTENDS StatusMonitor, TLAPS

\* What is online, was found online or is recorded online has been seen since
\* the outage announced last.
FreshInv ==
  \A d \in Device :
    /\ Online(d) => fresh[d]
    /\ d \in seen => fresh[d]
    /\ d \in polled \ seen /\ Online(d) => beat[d]
    /\ recorded[d] = "online" => fresh[d]

\* The record of a device announced online still says so; an iteration that
\* has read has told nothing yet.
NewsInv ==
  \A d \in Device :
    /\ d \notin Stored => news[d] = "none"
    /\ news[d] = "online" => recorded[d] = "online"
    /\ phase = "polled" => told[d] = "none"

IInv == TypeOK /\ FreshInv /\ NewsInv
-----------------------------------------------------------------------------
USE MonitorAssumption

LEMMA TypeStep == TypeOK /\ [Next]_vars => TypeOK'
<1> SUFFICES ASSUME TypeOK, [Next]_vars PROVE TypeOK'
  OBVIOUS
<1>1. CASE Startup
  BY <1>1 DEF Startup, TypeOK, iteration, Cap
<1>2. CASE Stop
  BY <1>2 DEF Stop, TypeOK, Cap
<1>3. CASE Tick
  BY <1>3 DEF Tick, TypeOK, iteration, Cap
<1>4. CASE Poll
  BY <1>4 DEF Poll, TypeOK, Cap
<1>5. CASE Commit
  BY <1>5 DEF Commit, TypeOK, Named, Cap
<1>6. CASE RollBack
  BY <1>6 DEF RollBack, TypeOK, Cap
<1>7. ASSUME NEW d \in Device, Register(d) PROVE TypeOK'
  BY <1>7 DEF Register, TypeOK, iteration, Cap
<1>8. ASSUME NEW d \in Device, Heartbeat(d) PROVE TypeOK'
  BY <1>8 DEF Heartbeat, TypeOK, iteration, Cap
<1>9. CASE UNCHANGED vars
  BY <1>9 DEF vars, iteration, TypeOK, Cap
<1>10. QED
  BY <1>1, <1>2, <1>3, <1>4, <1>5, <1>6, <1>7, <1>8, <1>9 DEF Next

(***************************************************************************)
(* Type correctness of the monitor.                                        *)
(***************************************************************************)
THEOREM TypeCorrect == Spec => []TypeOK
<1>1. Init => TypeOK
  BY DEF Init, TypeOK, Cap
<1>2. QED
  BY <1>1, TypeStep, PTL DEF Spec
-----------------------------------------------------------------------------
LEMMA FreshStep == TypeOK /\ FreshInv /\ [Next]_vars => FreshInv'
<1> SUFFICES ASSUME TypeOK, FreshInv, [Next]_vars PROVE FreshInv'
  OBVIOUS
<1> USE DEF Online, Cap
<1>1. CASE Startup
  BY <1>1 DEF Startup, FreshInv, iteration
<1>2. CASE Stop
  BY <1>2 DEF Stop, FreshInv
<1>3. CASE Tick
  BY <1>3 DEF Tick, FreshInv, TypeOK, iteration
<1>4. CASE Poll
  BY <1>4 DEF Poll, FreshInv, TypeOK
<1>5. CASE Commit
  BY <1>5 DEF Commit, FreshInv, TypeOK, Announced, Recorded, Changed, Named
<1>6. CASE RollBack
  BY <1>6 DEF RollBack, FreshInv
<1>7. ASSUME NEW d \in Device, Register(d) PROVE FreshInv'
  BY <1>7 DEF Register, FreshInv, iteration
<1>8. ASSUME NEW d \in Device, Heartbeat(d) PROVE FreshInv'
  BY <1>8 DEF Heartbeat, FreshInv, TypeOK, iteration
<1>9. CASE UNCHANGED vars
  BY <1>9 DEF vars, iteration, FreshInv
<1>10. QED
  BY <1>1, <1>2, <1>3, <1>4, <1>5, <1>6, <1>7, <1>8, <1>9 DEF Next

LEMMA NewsStep == TypeOK /\ NewsInv /\ [Next]_vars => NewsInv'
<1> SUFFICES ASSUME TypeOK, NewsInv, [Next]_vars PROVE NewsInv'
  OBVIOUS
<1>1. CASE Commit
  BY <1>1 DEF Commit, NewsInv, TypeOK, Announced, Recorded, Changed, Named
<1>2. CASE Poll
  BY <1>2 DEF Poll, NewsInv
<1>3. CASE /\ UNCHANGED <<told, news, recorded>>
           /\ phase' = "polled" => phase = "polled"
  BY <1>3 DEF NewsInv
<1>4. QED
  BY <1>1, <1>2, <1>3 DEF Next, Startup, Stop, Tick, RollBack, Register,
                          Heartbeat, vars

\* The inductive invariant.
THEOREM Invariance == Spec => []IInv
<1>1. Init => IInv
  BY DEF Init, IInv, TypeOK, FreshInv, NewsInv, Online, Cap
<1>2. IInv /\ [Next]_vars => IInv'
  BY TypeStep, FreshStep, NewsStep DEF IInv
<1>3. QED
  BY <1>1, <1>2, PTL DEF Spec

(***************************************************************************)
(* The commit of an iteration tells what the subscribers may be told.      *)
(***************************************************************************)
LEMMA CommitTells == IInv /\ Commit => Subscribers!Tell
<1> SUFFICES ASSUME IInv, Commit PROVE Subscribers!Tell
  OBVIOUS
<1> USE DEF IInv
<1>1. /\ told' \in [Device -> {"none", "online", "offline"}]
      /\ fresh' \in [Device -> BOOLEAN]
  BY TypeStep DEF TypeOK, Next
<1>2. told = Subscribers!Quiet
  BY DEF Commit, TypeOK, NewsInv, Subscribers!Quiet
<1>3. ASSUME NEW d \in Device
      PROVE  Subscribers!Outage(d) \/ Subscribers!Return(d) \/ Subscribers!Nothing(d)
  <2>1. CASE d \notin Announced
    BY <2>1 DEF Commit, Subscribers!Nothing
  <2>2. CASE d \in Announced \cap seen
    <3>1. news[d] # "online"
      BY <2>2 DEF NewsInv, Announced, Recorded, Changed, Named
    <3>2. told'[d] = "online" /\ fresh'[d] = fresh[d]
      BY <2>2 DEF Commit, Named
    <3>3. QED
      BY <3>1, <3>2 DEF Subscribers!Return
  <2>3. CASE d \in Announced \ seen
    <3>1. fresh[d]
      BY <2>3 DEF TypeOK, FreshInv, Announced, Recorded, Changed, Named
    <3>2. told'[d] = "offline" /\ fresh'[d] \in BOOLEAN
      BY <1>1, <2>3 DEF Commit, Named
    <3>3. QED
      BY <3>1, <3>2 DEF Subscribers!Outage
  <2>4. QED
    BY <2>1, <2>2, <2>3
<1>4. news' = [d \in Device |-> IF told'[d] # "none" THEN told'[d] ELSE news[d]]
  BY DEF Commit
<1>5. QED
  BY <1>1, <1>2, <1>3, <1>4 DEF Subscribers!Tell

(***************************************************************************)
(* The monitor keeps its promise to the subscribers of a store.            *)
(***************************************************************************)
THEOREM SubscribersAreToldRight == Spec => KeepsNewsPromise
<1>1. Init => Subscribers!Init
  BY DEF Init, Subscribers!Init, Subscribers!Quiet
<1>2. IInv /\ [Next]_vars => [Subscribers!Next]_<<told, news, fresh>>
  <2> SUFFICES ASSUME IInv, [Next]_vars
               PROVE  Subscribers!Next \/ UNCHANGED <<told, news, fresh>>
    OBVIOUS
  <2>1. CASE Commit
    BY <2>1, CommitTells DEF Subscribers!Next
  <2>2. ASSUME NEW d \in Device, Heartbeat(d) PROVE Subscribers!Next
    BY <2>2 DEF Heartbeat, Subscribers!Next, Subscribers!See
  <2>3. CASE Poll
    BY <2>3 DEF Poll, Subscribers!Next, Subscribers!Pass, Subscribers!Quiet
  <2>4. CASE UNCHANGED <<told, news, fresh>>
    BY <2>4
  <2>5. QED
    BY <2>1, <2>2, <2>3, <2>4 DEF Next, Startup, Stop, Tick, RollBack, Register, vars
<1>3. QED
  BY <1>1, <1>2, Invariance, PTL DEF Spec, KeepsNewsPromise, Subscribers!Spec
=============================================================================
