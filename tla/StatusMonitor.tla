---------------------------- MODULE StatusMonitor ----------------------------
(***************************************************************************)
(* The notification status monitor: a task that compares, every few        *)
(* seconds, each device's last_seen_at with what device_notification_state *)
(* records of it, and announces the changes as device_online and           *)
(* device_offline events.                                                  *)
(*                                                                         *)
(* One iteration reads the clock and all devices, decides for each, and    *)
(* commits every decision in one transaction; it runs in a thread, so      *)
(* connectors are seen meanwhile.  The record is on disk; the start of the *)
(* grace period is in memory and begins again with the process.            *)
(***************************************************************************)
EXTENDS Naturals

CONSTANTS
  Device,
  Stored,       \* the devices that belong to a store
  Threshold,    \* ONLINE_THRESHOLD_SECONDS, in ticks
  Grace,        \* NOTIFICATION_STARTUP_GRACE_SECONDS, in ticks
  MaxRestarts,  \* bound: process stops
  MaxDbFaults   \* bound: iterations that are rolled back

ASSUME MonitorAssumption ==
  /\ Stored \subseteq Device
  /\ Threshold \in Nat
  /\ Grace \in Nat
  /\ MaxRestarts \in Nat
  /\ MaxDbFaults \in Nat

VARIABLES
  registered,  \* SUBSET Device: rows of devices
  age,         \* [Device -> ticks since last_seen_at]; the cap when never seen
  recorded,    \* [Device -> last_known_online]; "none" without a row
  phase,       \* "down", "idle", or "polled": between SELECT and COMMIT
  uptime,      \* ticks since the monitor was made, up to the grace period
  polled,      \* the devices this iteration has read
  seen,        \* those of them it found online
  inGrace,     \* whether it found itself within the grace period
  restarts, faults,
  \* History, for the properties.
  told,        \* [Device -> its event in the last commit, or "none"]
  news,        \* [Device -> the last event of the device, or "none"]
  beat,        \* [Device -> BOOLEAN]: seen since this iteration's read
  fresh        \* [Device -> BOOLEAN]: seen since the read of the iteration
               \* that last announced it offline

iteration == <<polled, seen, inGrace>>
vars == <<registered, age, recorded, phase, uptime, iteration, restarts,
          faults, told, news, beat, fresh>>

\* Ages beyond the threshold are all alike.
Cap == Threshold + 1

Online(d) == age[d] <= Threshold

Named(isOnline) == IF isOnline THEN "online" ELSE "offline"
-----------------------------------------------------------------------------
Init ==
  /\ registered = {}
  /\ age = [d \in Device |-> Cap]
  /\ recorded = [d \in Device |-> "none"]
  /\ phase = "down"
  /\ uptime = 0
  /\ polled = {}
  /\ seen = {}
  /\ inGrace = TRUE
  /\ restarts = 0
  /\ faults = 0
  /\ told = [d \in Device |-> "none"]
  /\ news = [d \in Device |-> "none"]
  /\ beat = [d \in Device |-> FALSE]
  /\ fresh = [d \in Device |-> FALSE]

Startup ==
  /\ phase = "down"
  /\ phase' = "idle"
  /\ uptime' = 0
  /\ UNCHANGED <<registered, age, recorded, iteration, restarts, faults, told, news,
                 beat, fresh>>

\* The process stops; an open transaction is rolled back.
Stop ==
  /\ phase # "down"
  /\ restarts < MaxRestarts
  /\ restarts' = restarts + 1
  /\ phase' = "down"
  /\ polled' = {}
  /\ seen' = {}
  /\ UNCHANGED <<registered, age, recorded, uptime, inGrace, faults, told, news,
                 beat, fresh>>

Register(d) ==
  /\ phase # "down"
  /\ d \notin registered
  /\ registered' = registered \cup {d}
  /\ UNCHANGED <<age, recorded, phase, uptime, iteration, restarts, faults,
                 told, news, beat, fresh>>

\* The connector connects or sends anything: last_seen_at is now.
Heartbeat(d) ==
  /\ phase # "down"
  /\ d \in registered
  /\ age' = [age EXCEPT ![d] = 0]
  /\ beat' = [beat EXCEPT ![d] = TRUE]
  /\ fresh' = [fresh EXCEPT ![d] = TRUE]
  /\ UNCHANGED <<registered, recorded, phase, uptime, iteration, restarts,
                 faults, told, news>>

Tick ==
  /\ age' = [d \in Device |-> IF age[d] < Cap THEN age[d] + 1 ELSE age[d]]
  /\ uptime' = IF phase # "down" /\ uptime < Grace THEN uptime + 1 ELSE uptime
  /\ UNCHANGED <<registered, recorded, phase, iteration, restarts, faults,
                 told, news, beat, fresh>>

\* Faulty variant: every iteration begins the grace period anew.
PollRestartsGrace ==
  /\ phase = "idle"
  /\ phase' = "polled"
  /\ polled' = registered
  /\ seen' = {d \in registered : Online(d)}
  /\ inGrace' = (0 < Grace)
  /\ told' = [d \in Device |-> "none"]
  /\ beat' = [d \in Device |-> FALSE]
  /\ UNCHANGED <<registered, age, recorded, uptime, restarts, faults, news,
                 fresh>>

Poll ==
  /\ phase = "idle"
  /\ phase' = "polled"
  /\ polled' = registered
  /\ seen' = {d \in registered : Online(d)}
  /\ inGrace' = (uptime < Grace)
  /\ told' = [d \in Device |-> "none"]
  /\ beat' = [d \in Device |-> FALSE]
  /\ UNCHANGED <<registered, age, recorded, uptime, restarts, faults, news,
                 fresh>>

Changed == {d \in polled : recorded[d] # Named(d \in seen)}

\* Faulty variants: the grace period also records who went offline; only
\* outages are recorded after the first record.
RecordsAnyChange == Changed
RecordsOutages ==
  {d \in Changed : recorded[d] = "none" \/ (d \notin seen /\ ~inGrace)}

\* A first record and a recovery within the grace period are kept silent; an
\* outage within it is not recorded at all, so that it is announced after it.
Recorded ==
  {d \in Changed : inGrace => recorded[d] = "none" \/ d \in seen}

\* Outside it, a change of a device that belongs to a store is announced.
Announced ==
  {d \in Recorded \cap Stored : recorded[d] # "none" /\ ~inGrace}

\* Faulty variant: the events are committed, the record is not.
CommitEventsOnly ==
  /\ phase = "polled"
  /\ phase' = "idle"
  /\ told' = [d \in Device |-> IF d \in Announced THEN Named(d \in seen) ELSE "none"]
  /\ news' = [d \in Device |-> IF told'[d] # "none" THEN told'[d] ELSE news[d]]
  /\ recorded' = [d \in Device |->
       IF d \in Recorded \ Announced THEN Named(d \in seen) ELSE recorded[d]]
  /\ fresh' = [d \in Device |-> IF d \in Announced \ seen THEN beat[d]
                                                         ELSE fresh[d]]
  /\ polled' = {}
  /\ seen' = {}
  /\ UNCHANGED <<registered, age, uptime, inGrace, restarts, faults, beat>>

Commit ==
  /\ phase = "polled"
  /\ phase' = "idle"
  /\ recorded' = [d \in Device |-> IF d \in Recorded THEN Named(d \in seen)
                                                     ELSE recorded[d]]
  /\ told' = [d \in Device |-> IF d \in Announced THEN Named(d \in seen) ELSE "none"]
  /\ news' = [d \in Device |-> IF told'[d] # "none" THEN told'[d] ELSE news[d]]
  /\ fresh' = [d \in Device |-> IF d \in Announced \ seen THEN beat[d]
                                                         ELSE fresh[d]]
  /\ polled' = {}
  /\ seen' = {}
  /\ UNCHANGED <<registered, age, uptime, inGrace, restarts, faults, beat>>

\* One failing device, or a locked database, rolls back all of them.
RollBack ==
  /\ phase = "polled"
  /\ faults < MaxDbFaults
  /\ faults' = faults + 1
  /\ phase' = "idle"
  /\ polled' = {}
  /\ seen' = {}
  /\ UNCHANGED <<registered, age, recorded, uptime, inGrace, restarts, told, news,
                 beat, fresh>>

Next ==
  \/ Startup \/ Stop \/ Tick \/ Poll \/ Commit \/ RollBack
  \/ \E d \in Device : Register(d) \/ Heartbeat(d)

(***************************************************************************)
(* Time passes, the process is restarted when it stops, and the loop goes  *)
(* on after a failed iteration.  Connectors owe no heartbeat.              *)
(***************************************************************************)
Fairness ==
  /\ WF_vars(Tick)
  /\ WF_vars(Startup)
  /\ WF_vars(Poll)
  /\ WF_vars(Commit \/ RollBack)

Spec == Init /\ [][Next]_vars
FairSpec == Spec /\ Fairness
-----------------------------------------------------------------------------
TypeOK ==
  /\ registered \in SUBSET Device
  /\ age \in [Device -> 0 .. Cap]
  /\ recorded \in [Device -> {"none", "online", "offline"}]
  /\ phase \in {"down", "idle", "polled"}
  /\ uptime \in 0 .. Grace
  /\ polled \in SUBSET Device
  /\ seen \in SUBSET polled
  /\ inGrace \in BOOLEAN
  /\ restarts \in Nat
  /\ faults \in Nat
  /\ told \in [Device -> {"none", "online", "offline"}]
  /\ news \in [Device -> {"none", "online", "offline"}]
  /\ beat \in [Device -> BOOLEAN]
  /\ fresh \in [Device -> BOOLEAN]

(***************************************************************************)
(* What the events tell the subscribers, across restarts, crashes, grace   *)
(* periods and rolled back iterations: one outage is announced at most     *)
(* once (every offline event of a device is about a time after it was last *)
(* seen, and it was seen since the one before), and no device is announced *)
(* online twice without having been announced offline between, though      *)
(* recoveries within a grace period are kept silent.                       *)
(***************************************************************************)
Subscribers == INSTANCE PresenceNews

KeepsNewsPromise == Subscribers!Spec

(***************************************************************************)
(* An outage that lasts is recorded, and so announced, however often the   *)
(* process restarts in it (notification_status_monitor.py:92-93).          *)
(***************************************************************************)
OutagesAreRecorded ==
  \A d \in Device :
    recorded[d] = "online" /\ ~Online(d) ~> recorded[d] = "offline" \/ Online(d)

(***************************************************************************)
(* A recovery that lasts is recorded.                                      *)
(***************************************************************************)
RecoveriesAreRecorded ==
  \A d \in Device :
    recorded[d] = "offline" /\ Online(d) ~> recorded[d] = "online" \/ ~Online(d)
=============================================================================
