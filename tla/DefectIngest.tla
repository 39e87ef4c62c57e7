----------------------------- MODULE DefectIngest -----------------------------
(***************************************************************************)
(* POST /update: a device uploads the result of a scan, and the defects in *)
(* it are announced as defect_detected events.                             *)
(*                                                                         *)
(* The upload is one BEGIN IMMEDIATE transaction: the scan is inserted,    *)
(* once per device and image, and the events of a first insert with it.    *)
(* Connectors resend what was not acknowledged and upload backlogs in any  *)
(* order; uploads run concurrently but their transactions do not.          *)
(*                                                                         *)
(* An event suppresses further ones of its device and fruit for a window,  *)
(* by comparing ISO timestamps as strings: the stored one as its sender    *)
(* wrote it, with the sender's UTC offset, the cutoff in UTC.  Times are   *)
(* in half seconds: even ones are printed without a fraction.              *)
(***************************************************************************)
EXTENDS Integers

CONSTANTS
  Device,
  Stored,      \* the devices that belong to a store
  Image,       \* image ids, unique per device
  Fruit,       \* fruit identities
  MaxDefects,  \* bound: fruits with defects in one scan
  MaxTime,     \* bound: times of scans
  Offset,      \* UTC offsets of senders, in half seconds
  Window       \* DEFECT_NOTIFICATION_DEDUP_SECONDS

ASSUME IngestAssumption ==
  /\ Stored \subseteq Device
  /\ MaxDefects \in Nat
  /\ MaxTime \in Nat
  /\ Offset \subseteq Int
  /\ Window \in Nat \ {0}

Key == Device \X Image
Time == 0 .. MaxTime

\* A scan: when it occurred, its sender's offset, its fruits with defects.
Scan == [at : Time, offset : Offset,
         fruits : UNION {[1 .. n -> Fruit] : n \in 0 .. MaxDefects}]
NoScan == [at |-> -1, offset |-> 0, fruits |-> <<>>]

Event == [key : Key, nr : 1 .. MaxDefects, fruit : Fruit, at : Time, wall : Int]

VARIABLES
  scans,  \* [Key -> Scan or NoScan]: scan_results
  events, \* SUBSET Event: the defect_detected rows of notification_events
  quiet   \* History, SUBSET Key: scans stored with notifications disabled

vars == <<scans, events, quiet>>

Init ==
  /\ scans = [k \in Key |-> NoScan]
  /\ events = {}
  /\ quiet = {}
-----------------------------------------------------------------------------
Second(t) == t \div 2

\* "hh:mm:ss[.5]+xx:xx" >= "hh:mm:ss[.5]Z" as strings: within one second
\* '+' comes before '.', and both come before 'Z'.
StringNotBefore(wall, cutoff) == Second(wall) > Second(cutoff)

\* Faulty variant: only events that did not occur later count.
SuppressesLater(e, d, fruit, at) ==
  /\ e.key[1] = d
  /\ e.fruit = fruit
  /\ e.at <= at
  /\ StringNotBefore(e.wall, at - 2 * Window)

Suppresses(e, d, fruit, at) ==
  /\ e.key[1] = d
  /\ e.fruit = fruit
  /\ StringNotBefore(e.wall, at - 2 * Window)

EventOf(k, s, i) ==
  [key |-> k, nr |-> i, fruit |-> s.fruits[i], at |-> s.at,
   wall |-> s.at + s.offset]

\* The events of a first insert: of each fruit that no earlier event, and no
\* earlier fruit of the same scan, suppresses.
NewEvents(k, s) ==
  LET All == {EventOf(k, s, i) : i \in DOMAIN s.fruits} IN
  IF k[1] \notin Stored THEN {}
  ELSE {e \in All :
          /\ \A f \in events : ~Suppresses(f, k[1], e.fruit, s.at)
          /\ \A f \in All : f.nr < e.nr => ~Suppresses(f, k[1], e.fruit, s.at)}

\* Faulty variants: a resent image replaces the scan and is announced again;
\* the scan is committed before its events.
IngestReplaces(k, s) ==
  /\ scans' = [scans EXCEPT ![k] = s]
  /\ events' = events \cup NewEvents(k, s)
  /\ UNCHANGED quiet

IngestInTwo(k, s) ==
  /\ scans[k] = NoScan
  /\ scans' = [scans EXCEPT ![k] = s]
  /\ events' = events \/ events' = events \cup NewEvents(k, s)
  /\ UNCHANGED quiet

(***************************************************************************)
(* An upload that is committed, by a server whose notifications are        *)
(* enabled or disabled.  One that fails, and a duplicate of an image       *)
(* (409), change nothing.                                                  *)
(***************************************************************************)
Ingest(k, s) ==
  /\ scans[k] = NoScan
  /\ scans' = [scans EXCEPT ![k] = s]
  /\ events' = events \cup NewEvents(k, s)
  /\ UNCHANGED quiet

IngestQuietly(k, s) ==
  /\ scans[k] = NoScan
  /\ scans' = [scans EXCEPT ![k] = s]
  /\ quiet' = quiet \cup {k}
  /\ UNCHANGED events

Next == \E k \in Key, s \in Scan : Ingest(k, s) \/ IngestQuietly(k, s)

Spec == Init /\ [][Next]_vars
-----------------------------------------------------------------------------
TypeOK ==
  /\ scans \in [Key -> Scan \cup {NoScan}]
  /\ events \subseteq Event
  /\ quiet \subseteq Key

(***************************************************************************)
(* No defect is lost: every fruit with a defect in a scan that was stored  *)
(* with notifications enabled has an event of its own, or there is one of  *)
(* its fruit and device that is less than a window older by its sender's   *)
(* clock: one in the window before it, or any that occurred later, however *)
(* much (the query has no upper bound).  A scan stored without its events  *)
(* would be a duplicate when it is sent again, and never announced.        *)
(***************************************************************************)
StoredIsAnnounced ==
  \A k \in Key : scans[k] # NoScan /\ k[1] \in Stored /\ k \notin quiet =>
    \A i \in DOMAIN scans[k].fruits :
      \E e \in events :
        \/ e = EventOf(k, scans[k], i)
        \/ /\ e.key[1] = k[1]
           /\ e.fruit = scans[k].fruits[i]
           /\ e.wall > scans[k].at - 2 * Window

(***************************************************************************)
(* An image counts once, however often it is sent: the first scan stays,   *)
(* and nothing is announced of it later.                                   *)
(***************************************************************************)
ImagesCountOnce ==
  [][\A k \in Key : scans[k] # NoScan =>
       /\ scans'[k] = scans[k]
       /\ \A e \in events' : e.key = k => e \in events]_vars

(***************************************************************************)
(* What the comparison of strings does hold, whatever offsets senders      *)
(* write and in whatever order their scans arrive: of two events of one    *)
(* fruit on one device, one occurred a window (but for the fraction of a   *)
(* second) after what the other's sender had on its clock.                 *)
(***************************************************************************)
ClocksApart ==
  \A e, f \in events :
    e # f /\ e.key[1] = f.key[1] /\ e.fruit = f.fruit =>
      \/ e.at - f.wall >= 2 * Window - 1
      \/ f.at - e.wall >= 2 * Window - 1

(***************************************************************************)
(* Two events of one fruit on one device are a window apart (but for the   *)
(* fraction of a second that the comparison of strings may lose), in       *)
(* whatever order their scans arrive, as tests/test_notifications.py:756   *)
(* has it of two scans five seconds apart in a window of ten.              *)
(***************************************************************************)
OnePerWindow ==
  \A e, f \in events :
    e # f /\ e.key[1] = f.key[1] /\ e.fruit = f.fruit =>
      \/ e.at - f.at >= 2 * Window - 1
      \/ f.at - e.at >= 2 * Window - 1
=============================================================================
