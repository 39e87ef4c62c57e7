-------------------------- MODULE DefectAlerts_proofs --------------------------
(***************************************************************************)
(* Theorems about the scan uploads, for any devices, images, fruits and    *)
(* window, and any order of arrival, and about who is told of them, for    *)
(* any users, stores, roles and settings.                                  *)
(***************************************************************************)
EXTENDS DefectAlerts, WellFoundedInduction, TLAPS

\* The events carry the time of their sender's clock.
WallInv == \A e \in events : \E o \in Offset : e.wall = e.at + o
-----------------------------------------------------------------------------
USE IngestAssumption

LEMMA ScanFruits ==
  ASSUME NEW s \in Scan, NEW i \in DOMAIN s.fruits
  PROVE  i \in 1 .. MaxDefects /\ s.fruits[i] \in Fruit
<1>1. PICK n \in 0 .. MaxDefects : s.fruits \in [1 .. n -> Fruit]
  BY DEF Scan
<1>2. QED
  BY <1>1

LEMMA ScanTimes ==
  ASSUME NEW s \in Scan PROVE s.at \in Int /\ s.offset \in Int
<1>1. s.at \in Time /\ s.offset \in Offset
  BY DEF Scan
<1>2. s.offset \in Int
  BY <1>1
<1>3. Time \subseteq Int
  BY DEF Time
<1>4. s.at \in Int
  BY <1>1, <1>3
<1>5. QED
  BY <1>2, <1>4

LEMMA NewEventsType ==
  ASSUME NEW k \in Key, NEW s \in Scan, NEW e \in NewEvents(k, s)
  PROVE  /\ e \in Event
         /\ e.key = k /\ e.at = s.at /\ e.wall = s.at + s.offset
         /\ \E i \in DOMAIN s.fruits : e = EventOf(k, s, i)
         /\ \A f \in events : ~Suppresses(f, k[1], e.fruit, s.at)
<1>1. PICK i \in DOMAIN s.fruits : e = EventOf(k, s, i)
  BY DEF NewEvents
<1>2. i \in 1 .. MaxDefects /\ s.fruits[i] \in Fruit
  BY ScanFruits
<1>3. s.at \in Time /\ s.offset \in Int
  BY DEF Scan
<1>4. e \in Event
  BY <1>1, <1>2, <1>3 DEF EventOf, Event, Time
<1>5. QED
  BY <1>1, <1>4 DEF NewEvents, EventOf

LEMMA TypeStep == TypeOK /\ [Next]_vars => TypeOK'
<1> SUFFICES ASSUME TypeOK, [Next]_vars PROVE TypeOK'
  OBVIOUS
<1>1. ASSUME NEW k \in Key, NEW s \in Scan, Ingest(k, s) PROVE TypeOK'
  <2>1. NewEvents(k, s) \subseteq Event
    BY NewEventsType
  <2>2. QED
    BY <1>1, <2>1 DEF Ingest, TypeOK
<1>2. ASSUME NEW k \in Key, NEW s \in Scan, IngestQuietly(k, s) PROVE TypeOK'
  BY <1>2 DEF IngestQuietly, TypeOK
<1>3. CASE UNCHANGED vars
  BY <1>3 DEF vars, TypeOK
<1>4. QED
  BY <1>1, <1>2, <1>3 DEF Next

(***************************************************************************)
(* Type correctness of the uploads.                                        *)
(***************************************************************************)
THEOREM TypeCorrect == Spec => []TypeOK
<1>1. Init => TypeOK
  BY DEF Init, TypeOK
<1>2. QED
  BY <1>1, TypeStep, PTL DEF Spec

(***************************************************************************)
(* A resent image changes nothing.                                         *)
(***************************************************************************)
THEOREM ResendsAreHarmless == Spec => ImagesCountOnce
<1>1. TypeOK /\ [Next]_vars =>
        \A k \in Key : scans[k] # NoScan =>
          /\ scans'[k] = scans[k]
          /\ \A e \in events' : e.key = k => e \in events
  <2> SUFFICES ASSUME TypeOK, [Next]_vars, NEW k \in Key, scans[k] # NoScan
               PROVE  /\ scans'[k] = scans[k]
                      /\ \A e \in events' : e.key = k => e \in events
    OBVIOUS
  <2>1. ASSUME NEW l \in Key, NEW s \in Scan, Ingest(l, s)
        PROVE  /\ scans'[k] = scans[k]
               /\ \A e \in events' : e.key = k => e \in events
    <3>1. k # l
      BY <2>1 DEF Ingest
    <3>2. \A e \in NewEvents(l, s) : e.key = l
      BY NewEventsType
    <3>3. QED
      BY <2>1, <3>1, <3>2 DEF Ingest, TypeOK
  <2>2. ASSUME NEW l \in Key, NEW s \in Scan, IngestQuietly(l, s)
        PROVE  scans'[k] = scans[k] /\ events' = events
    BY <2>2 DEF IngestQuietly, TypeOK
  <2>3. CASE UNCHANGED vars
    BY <2>3 DEF vars
  <2>4. QED
    BY <2>1, <2>2, <2>3 DEF Next
<1>2. QED
  BY <1>1, TypeCorrect, PTL DEF Spec, ImagesCountOnce
-----------------------------------------------------------------------------
\* What is not suppressed is a window later (UTC, up to half a second).
LEMMA Apart ==
  ASSUME NEW a \in Int, NEW b \in Int, ~StringNotBefore(a, b - 2 * Window)
  PROVE  b - a >= 2 * Window - 1
BY DEF StringNotBefore, Second

\* An event suppresses its own time.
LEMMA SameTime ==
  ASSUME NEW a \in Int PROVE StringNotBefore(a, a - 2 * Window)
BY DEF StringNotBefore, Second

\* Two events of one scan and fruit: the first one does not suppress the
\* second one by its sender's clock.
LEMMA ScanApart ==
  ASSUME NEW k \in Key, NEW s \in Scan,
         NEW e \in NewEvents(k, s), NEW f \in NewEvents(k, s), e # f, e.fruit = f.fruit
  PROVE  s.at - (s.at + s.offset) >= 2 * Window - 1
<1>1. PICK i \in DOMAIN s.fruits : e = EventOf(k, s, i)
  BY NewEventsType
<1>2. PICK j \in DOMAIN s.fruits : f = EventOf(k, s, j)
  BY NewEventsType
<1>3. i # j /\ i \in Int /\ j \in Int
  BY <1>1, <1>2, ScanFruits
<1>4. /\ e.nr = i /\ e.key = k /\ e.wall = s.at + s.offset
      /\ f.nr = j /\ f.key = k /\ f.wall = s.at + s.offset
  BY <1>1, <1>2 DEF EventOf
<1>5. /\ e.nr < f.nr => ~Suppresses(e, k[1], f.fruit, s.at)
      /\ f.nr < e.nr => ~Suppresses(f, k[1], e.fruit, s.at)
  BY <1>1, <1>2 DEF NewEvents
<1>6. ~StringNotBefore(s.at + s.offset, s.at - 2 * Window)
  BY <1>3, <1>4, <1>5 DEF Suppresses
<1>7. s.at \in Int /\ s.at + s.offset \in Int
  BY ScanTimes
<1>8. QED
  BY <1>6, <1>7, Apart

(***************************************************************************)
(* Events of one fruit on one device are a window apart by the clocks of   *)
(* their senders, whatever those are and whatever the order of arrival.    *)
(***************************************************************************)
THEOREM ClocksStayApart == Spec => []ClocksApart
<1>1. Init => ClocksApart
  BY DEF Init, ClocksApart
<1>2. TypeOK /\ ClocksApart /\ [Next]_vars => ClocksApart'
  <2> SUFFICES ASSUME TypeOK, ClocksApart, [Next]_vars PROVE ClocksApart'
    OBVIOUS
  <2>1. ASSUME NEW k \in Key, NEW s \in Scan, Ingest(k, s) PROVE ClocksApart'
    <3>1. s.at \in Int /\ s.offset \in Int
      BY ScanTimes
    <3>2. ASSUME NEW e \in NewEvents(k, s), NEW f \in events,
                 e.key[1] = f.key[1], e.fruit = f.fruit
          PROVE  e.at - f.wall >= 2 * Window - 1
      <4>1. e.key = k /\ e.at = s.at /\ ~Suppresses(f, k[1], e.fruit, s.at)
        BY NewEventsType
      <4>2. ~StringNotBefore(f.wall, s.at - 2 * Window)
        BY <3>2, <4>1 DEF Suppresses
      <4>3. f.wall \in Int
        BY DEF TypeOK, Event
      <4>4. QED
        BY <3>1, <4>1, <4>2, <4>3, Apart
    <3>3. ASSUME NEW e \in NewEvents(k, s), NEW f \in NewEvents(k, s),
                 e # f, e.fruit = f.fruit
          PROVE  e.at - f.wall >= 2 * Window - 1
      <4>1. e.at = s.at /\ f.wall = s.at + s.offset
        BY NewEventsType
      <4>2. QED
        BY <3>3, <4>1, ScanApart
    <3>4. QED
      BY <2>1, <3>2, <3>3 DEF Ingest, ClocksApart
  <2>2. CASE UNCHANGED events
    BY <2>2 DEF ClocksApart
  <2>3. QED
    BY <2>1, <2>2 DEF Next, IngestQuietly, vars
<1>3. QED
  BY <1>1, <1>2, TypeCorrect, PTL DEF Spec

LEMMA WallHolds == Spec => []WallInv
<1>1. Init => WallInv
  BY DEF Init, WallInv
<1>2. WallInv /\ [Next]_vars => WallInv'
  <2> SUFFICES ASSUME WallInv, [Next]_vars PROVE WallInv'
    OBVIOUS
  <2>1. ASSUME NEW k \in Key, NEW s \in Scan, Ingest(k, s) PROVE WallInv'
    <3>1. s.offset \in Offset
      BY DEF Scan
    <3>2. \A e \in NewEvents(k, s) : e.wall = e.at + s.offset
      BY NewEventsType
    <3>3. QED
      BY <2>1, <3>1, <3>2 DEF Ingest, WallInv
  <2>2. CASE UNCHANGED events
    BY <2>2 DEF WallInv
  <2>3. QED
    BY <2>1, <2>2 DEF Next, IngestQuietly, vars
<1>3. QED
  BY <1>1, <1>2, PTL DEF Spec

(***************************************************************************)
(* When all senders write UTC, the events themselves are a window apart.   *)
(***************************************************************************)
THEOREM WindowsHold ==
  ASSUME Offset = {0}
  PROVE  Spec => []OnePerWindow
<1>1. TypeOK /\ WallInv /\ ClocksApart => OnePerWindow
  <2> SUFFICES ASSUME TypeOK, WallInv, ClocksApart PROVE OnePerWindow
    OBVIOUS
  <2>1. \A e \in events : e.at \in Int /\ e.wall = e.at
    BY DEF TypeOK, Event, Time, WallInv
  <2>2. QED
    BY <2>1 DEF ClocksApart, OnePerWindow
<1>2. QED
  BY <1>1, TypeCorrect, WallHolds, ClocksStayApart, PTL
-----------------------------------------------------------------------------
\* Every set of natural numbers but the empty one has a least element.
Below == {p \in Nat \X Nat : p[1] < p[2]}

LEMMA Least ==
  ASSUME NEW T, T \subseteq Nat, T # {}
  PROVE  \E x \in T : \A y \in T : x <= y
<1>1. IsWellFoundedOn(Below, Nat)
  BY NatLessThanWellFounded, Zenon DEF OpToRel, Below
<1>2. PICK x \in T : \A y \in T : ~(<<y, x>> \in Below)
  BY <1>1, WFMin
<1>3. ASSUME NEW y \in T PROVE x <= y
  <2>1. x \in Nat /\ y \in Nat
    OBVIOUS
  <2>2. ~(<<y, x>>[1] < <<y, x>>[2])
    BY <1>2, <2>1, Zenon DEF Below
  <2>3. QED
    BY <2>1, <2>2
<1>4. QED
  BY <1>3

\* Of equal fruits of one scan the first is announced, or something before
\* the scan covers them all.
LEMMA FirstIsAnnounced ==
  ASSUME NEW k \in Key, NEW s \in Scan, k[1] \in Stored, NEW i \in DOMAIN s.fruits
  PROVE  \E e \in events \cup NewEvents(k, s) :
           e = EventOf(k, s, i) \/ Suppresses(e, k[1], s.fruits[i], s.at)
<1> DEFINE Same == {j \in DOMAIN s.fruits : s.fruits[j] = s.fruits[i]}
           All == {EventOf(k, s, j) : j \in DOMAIN s.fruits}
           Covered == \E e \in events : Suppresses(e, k[1], s.fruits[i], s.at)
<1>1. PICK n \in 0 .. MaxDefects : s.fruits \in [1 .. n -> Fruit]
  BY DEF Scan
<1>2. Same \subseteq Nat /\ i \in Same
  BY <1>1
<1>3. PICK m \in Same : \A j \in Same : m <= j
  BY <1>2, Least
<1>4. \A j \in DOMAIN s.fruits :
        /\ EventOf(k, s, j).nr = j /\ EventOf(k, s, j).fruit = s.fruits[j]
        /\ EventOf(k, s, j).key = k /\ EventOf(k, s, j).wall = s.at + s.offset
  BY DEF EventOf
<1>5. CASE Covered
  BY <1>5
<1>6. CASE ~Covered
  <2>1. EventOf(k, s, m) \in NewEvents(k, s)
    <3>1. \A f \in events : ~Suppresses(f, k[1], EventOf(k, s, m).fruit, s.at)
      BY <1>3, <1>4, <1>6
    <3>2. ASSUME NEW j \in DOMAIN s.fruits, EventOf(k, s, j).nr < EventOf(k, s, m).nr
          PROVE  ~Suppresses(EventOf(k, s, j), k[1], EventOf(k, s, m).fruit, s.at)
      <4>1. j \notin Same
        BY <1>1, <1>2, <1>3, <1>4, <3>2
      <4>2. QED
        BY <1>3, <1>4, <4>1 DEF Suppresses
    <3>3. QED
      BY <1>3, <3>1, <3>2 DEF NewEvents
  <2>2. CASE Suppresses(EventOf(k, s, m), k[1], s.fruits[i], s.at)
    BY <2>1, <2>2
  <2>3. CASE ~Suppresses(EventOf(k, s, m), k[1], s.fruits[i], s.at)
    <3>1. \A j \in DOMAIN s.fruits :
            ~Suppresses(EventOf(k, s, j), k[1], s.fruits[i], s.at)
      BY <1>3, <1>4, <2>3 DEF Suppresses
    <3>2. EventOf(k, s, i) \in NewEvents(k, s)
      BY <1>4, <1>6, <3>1 DEF NewEvents
    <3>3. QED
      BY <3>2
  <2>4. QED
    BY <2>2, <2>3
<1>7. QED
  BY <1>5, <1>6

\* What suppresses is less than a window older, by its sender's clock.
LEMMA SuppressingIsNear ==
  ASSUME NEW e \in Event, NEW d, NEW fruit, NEW at \in Int,
         Suppresses(e, d, fruit, at)
  PROVE  e.key[1] = d /\ e.fruit = fruit /\ e.wall > at - 2 * Window
<1>1. e.wall \in Int
  BY DEF Event
<1>2. Second(e.wall) > Second(at - 2 * Window)
  BY DEF Suppresses, StringNotBefore
<1>3. e.wall > at - 2 * Window
  BY <1>1, <1>2 DEF Second
<1>4. QED
  BY <1>3 DEF Suppresses

(***************************************************************************)
(* No defect of a scan that is stored while notifications are enabled is   *)
(* lost, with senders of any offset: it has its event, or one of its fruit *)
(* and device is less than a window older by its sender's clock, or later. *)
(***************************************************************************)
THEOREM NothingIsLost == Spec => []StoredIsAnnounced
<1>1. Init => StoredIsAnnounced
  BY DEF Init, StoredIsAnnounced
<1>2. TypeOK /\ StoredIsAnnounced /\ [Next]_vars => StoredIsAnnounced'
  <2> SUFFICES ASSUME TypeOK, StoredIsAnnounced, [Next]_vars,
                      NEW l \in Key, scans'[l] # NoScan, l[1] \in Stored,
                      l \notin quiet', NEW i \in DOMAIN scans'[l].fruits
               PROVE  \E e \in events' :
                        \/ e = EventOf(l, scans'[l], i)
                        \/ /\ e.key[1] = l[1]
                           /\ e.fruit = scans'[l].fruits[i]
                           /\ e.wall > scans'[l].at - 2 * Window
    BY DEF StoredIsAnnounced, EventOf
  <2>1. CASE /\ scans'[l] = scans[l]
             /\ events \subseteq events' /\ quiet \subseteq quiet'
    BY <2>1 DEF StoredIsAnnounced
  <2>2. ASSUME NEW s \in Scan, Ingest(l, s)
        PROVE  \E e \in events' :
                 \/ e = EventOf(l, s, i)
                 \/ /\ e.key[1] = l[1] /\ e.fruit = s.fruits[i]
                    /\ e.wall > s.at - 2 * Window
    <3>1. scans'[l] = s /\ events' = events \cup NewEvents(l, s)
      BY <2>2 DEF Ingest, TypeOK
    <3>2. PICK e \in events' :
            e = EventOf(l, s, i) \/ Suppresses(e, l[1], s.fruits[i], s.at)
      BY <3>1, FirstIsAnnounced
    <3>3. e \in Event
      BY <3>1, NewEventsType DEF TypeOK
    <3>4. QED
      BY <3>2, <3>3, ScanTimes, SuppressingIsNear
  <2>3. ASSUME NEW k \in Key, NEW s \in Scan, Ingest(k, s)
        PROVE  IF k = l THEN scans'[l] = s
               ELSE /\ scans'[l] = scans[l]
                    /\ events \subseteq events' /\ quiet' = quiet
    BY <2>3 DEF Ingest, TypeOK
  <2>4. ASSUME NEW k \in Key, NEW s \in Scan, IngestQuietly(k, s)
        PROVE  /\ scans'[l] = scans[l]
               /\ events' = events /\ quiet \subseteq quiet'
    BY <2>4 DEF IngestQuietly, TypeOK
  <2>5. QED
    BY <2>1, <2>2, <2>3, <2>4 DEF Next, vars
<1>3. QED
  BY <1>1, <1>2, TypeCorrect, PTL DEF Spec
-----------------------------------------------------------------------------
(***************************************************************************)
(* Uploads that resolve recipients are uploads: all of the above holds of  *)
(* them, whatever becomes of members and their settings.                   *)
(***************************************************************************)
THEOREM AlertsAreUploads == AlertSpec => Spec
<1>1. AlertInit => Init
  BY DEF AlertInit
<1>2. [AlertNext]_alertVars => [Next]_vars
  BY DEF AlertNext, Upload, UploadQuietly, Next, alertVars, vars
<1>3. QED
  BY <1>1, <1>2, PTL DEF AlertSpec, Spec
-----------------------------------------------------------------------------
\* What a user has turned off is off, what else there is is on.
OffInv ==
  \A u \in User, s \in Store, t \in Toggle : Current(u, s)[t] <=> t \notin off[u][s]

\* An event is of a scan that is stored.
KeyInv == \A e \in events : e.key \in Key /\ scans[e.key] # NoScan

AlertInv == AlertTypeOK /\ OffInv /\ KeyInv

LEMMA CurrentType ==
  ASSUME RecipientTypeOK, NEW u \in User, NEW s \in Store
  PROVE  Current(u, s) \in [Toggle -> BOOLEAN]
BY DEF RecipientTypeOK, Current

LEMMA MergedType ==
  ASSUME RecipientTypeOK, NEW u \in User, NEW s \in Store, NEW choice \in Choice
  PROVE  /\ DOMAIN choice \subseteq Toggle
         /\ \A t \in DOMAIN choice : choice[t] \in BOOLEAN
         /\ Merged(u, s, choice) \in [Toggle -> BOOLEAN]
<1>1. PICK T \in SUBSET Toggle : choice \in [T -> BOOLEAN]
  BY DEF Choice
<1>2. Current(u, s) \in [Toggle -> BOOLEAN]
  BY CurrentType
<1>3. QED
  BY <1>1, <1>2 DEF Merged

LEMMA RecipientStep ==
  ASSUME RecipientTypeOK, OffInv, RecipientNext
  PROVE  RecipientTypeOK' /\ OffInv'
<1>1. ASSUME NEW u \in User, NEW s \in Store, NEW choice \in Choice,
             UpdateSettings(u, s, choice)
      PROVE  RecipientTypeOK' /\ OffInv'
  <2> DEFINE Off == {t \in Toggle : IF t \in DOMAIN choice THEN ~choice[t]
                                                         ELSE t \in off[u][s]}
  <2>1. /\ prefs' = [prefs EXCEPT ![u][s] = Merged(u, s, choice)]
        /\ off' = [off EXCEPT ![u][s] = Off]
        /\ UNCHANGED <<role, banned, open>>
    BY <1>1 DEF UpdateSettings, RecipientTypeOK
  <2>2. Merged(u, s, choice) \in [Toggle -> BOOLEAN] /\ Off \subseteq Toggle
    BY MergedType
  <2>3. RecipientTypeOK'
    BY <2>1, <2>2 DEF RecipientTypeOK
  <2>4. \A t \in Toggle : Merged(u, s, choice)[t] <=> t \notin Off
    BY MergedType DEF Merged, OffInv
  <2>5. ASSUME NEW v \in User, NEW r \in Store, NEW t \in Toggle
        PROVE  Current(v, r)'[t] <=> t \notin off'[v][r]
    <3>1. CASE v = u /\ r = s
      <4>1. prefs'[v][r] = Merged(u, s, choice) /\ off'[v][r] = Off
        BY <2>1, <3>1 DEF RecipientTypeOK
      <4>2. Merged(u, s, choice) # NoRow
        BY <2>2, RecipientAssumption
      <4>3. QED
        BY <2>4, <4>1, <4>2 DEF Current
    <3>2. CASE ~(v = u /\ r = s)
      <4>1. prefs'[v][r] = prefs[v][r] /\ off'[v][r] = off[v][r]
        BY <2>1, <3>2 DEF RecipientTypeOK
      <4>2. QED
        BY <4>1 DEF Current, OffInv
    <3>3. QED
      BY <3>1, <3>2
  <2>6. QED
    BY <2>3, <2>5 DEF OffInv
<1>2. ASSUME NEW u \in User, NEW s \in Store, NEW r \in Role \cup {NoRole},
             ChangeRole(u, s, r)
      PROVE  RecipientTypeOK' /\ OffInv'
  BY <1>2 DEF ChangeRole, RecipientTypeOK, OffInv, Current
<1>3. ASSUME NEW u \in User, Ban(u) \/ Unban(u)
      PROVE  RecipientTypeOK' /\ OffInv'
  BY <1>3 DEF Ban, Unban, RecipientTypeOK, OffInv, Current
<1>4. ASSUME NEW s \in Store, ToggleStore(s)
      PROVE  RecipientTypeOK' /\ OffInv'
  BY <1>4 DEF ToggleStore, RecipientTypeOK, OffInv, Current
<1>5. QED
  BY <1>1, <1>2, <1>3, <1>4 DEF RecipientNext

LEMMA UploadStep ==
  ASSUME AlertInv, NEW k \in Key, NEW s \in Scan, Upload(k, s)
  PROVE  AlertInv'
<1>1. TypeOK'
  BY TypeStep DEF AlertInv, AlertTypeOK, Upload, Next
<1>2. RecipientTypeOK' /\ OffInv'
  BY DEF AlertInv, AlertTypeOK, Upload, recipientVars, RecipientTypeOK, OffInv, Current
<1>3. told' \subseteq User \X events'
  BY DEF AlertInv, AlertTypeOK, Upload, Ingest, Deliveries
<1>4. KeyInv'
  <2>1. s # NoScan
    BY DEF Scan, NoScan, Time
  <2>2. scans'[k] = s /\ \A l \in Key : l # k => scans'[l] = scans[l]
    BY DEF Upload, Ingest, AlertInv, AlertTypeOK, TypeOK
  <2>3. \A e \in NewEvents(k, s) : e.key = k
    BY NewEventsType
  <2>4. QED
    BY <2>1, <2>2, <2>3 DEF Upload, Ingest, AlertInv, KeyInv
<1>5. QED
  BY <1>1, <1>2, <1>3, <1>4 DEF AlertInv, AlertTypeOK

LEMMA QuietStep ==
  ASSUME AlertInv, NEW k \in Key, NEW s \in Scan, UploadQuietly(k, s)
  PROVE  AlertInv'
<1>1. TypeOK'
  BY TypeStep DEF AlertInv, AlertTypeOK, UploadQuietly, Next
<1>2. RecipientTypeOK' /\ OffInv' /\ told' \subseteq User \X events'
  BY DEF AlertInv, AlertTypeOK, UploadQuietly, IngestQuietly, recipientVars,
         RecipientTypeOK, OffInv, Current
<1>3. KeyInv'
  <2>1. \A l \in Key : scans[l] # NoScan => scans'[l] # NoScan
    BY DEF UploadQuietly, IngestQuietly, AlertInv, AlertTypeOK, TypeOK
  <2>2. QED
    BY <2>1 DEF UploadQuietly, IngestQuietly, AlertInv, KeyInv
<1>4. QED
  BY <1>1, <1>2, <1>3 DEF AlertInv, AlertTypeOK

LEMMA AlertInvHolds == AlertSpec => []AlertInv
<1>1. AlertInit => AlertInv
  BY DEF AlertInit, Init, RecipientInit, AlertInv, AlertTypeOK, TypeOK,
         RecipientTypeOK, OffInv, KeyInv, Current
<1>2. AlertInv /\ [AlertNext]_alertVars => AlertInv'
  <2> SUFFICES ASSUME AlertInv, [AlertNext]_alertVars PROVE AlertInv'
    OBVIOUS
  <2>1. ASSUME NEW k \in Key, NEW s \in Scan, Upload(k, s) PROVE AlertInv'
    BY <2>1, UploadStep
  <2>2. CASE RecipientNext /\ UNCHANGED <<vars, told>>
    <3>1. RecipientTypeOK' /\ OffInv'
      BY <2>2, RecipientStep DEF AlertInv, AlertTypeOK
    <3>2. UNCHANGED <<scans, events, quiet, told>>
      BY <2>2 DEF vars
    <3>3. TypeOK' /\ told' \subseteq User \X events' /\ KeyInv'
      BY <3>2 DEF AlertInv, AlertTypeOK, TypeOK, KeyInv
    <3>4. QED
      BY <3>1, <3>3 DEF AlertInv, AlertTypeOK
  <2>3. CASE UNCHANGED alertVars
    BY <2>3 DEF alertVars, vars, recipientVars, AlertInv, AlertTypeOK, TypeOK,
                RecipientTypeOK, OffInv, KeyInv, Current
  <2>4. QED
    BY <2>1, <2>2, <2>3, QuietStep DEF AlertNext
<1>3. QED
  BY <1>1, <1>2, PTL DEF AlertSpec

(***************************************************************************)
(* Type correctness of uploads and recipients.                             *)
(***************************************************************************)
THEOREM AlertTypeCorrect == AlertSpec => []AlertTypeOK
<1>1. AlertInv => AlertTypeOK
  BY DEF AlertInv
<1>2. QED
  BY <1>1, AlertInvHolds, PTL

\* The recipients are those that are willing.
LEMMA RecipientsAreWilling ==
  ASSUME OffInv, NEW s \in Store, NEW k \in Kind
  PROVE  Recipients(s, k) = Willing(s, k)
<1>1. \A u \in User : /\ Current(u, s)[k] <=> k \notin off[u][s]
                      /\ Current(u, s)["notifications"] <=> "notifications" \notin off[u][s]
  BY DEF OffInv, Toggle
<1>2. QED
  BY <1>1 DEF Recipients, Eligible, Willing

(***************************************************************************)
(* Of every new defect exactly those are told who may be and wish to be,   *)
(* and nobody is told of a defect later.                                   *)
(***************************************************************************)
THEOREM WishesAreKept == AlertSpec => ToldAsWished
<1>1. AlertInv /\ [AlertNext]_alertVars =>
        \A u \in User, e \in events' :
          <<u, e>> \in told' \ told <=>
            e \notin events /\ u \in Willing(StoreOfEvent(e), "defect_detected")
  <2> SUFFICES ASSUME AlertInv, [AlertNext]_alertVars, NEW u \in User, NEW e \in events'
               PROVE  <<u, e>> \in told' \ told <=>
                        /\ e \notin events
                        /\ u \in Willing(StoreOfEvent(e), "defect_detected")
    OBVIOUS
  <2>1. ASSUME NEW k \in Key, NEW s \in Scan, Upload(k, s)
        PROVE  <<u, e>> \in told' \ told <=>
                 e \notin events /\ u \in Willing(StoreOfEvent(e), "defect_detected")
    <3>1. /\ events' = events \cup NewEvents(k, s)
          /\ told' = told \cup Deliveries(NewEvents(k, s))
          /\ scans[k] = NoScan
      BY <2>1 DEF Upload, Ingest
    <3>2. e \in NewEvents(k, s) <=> e \notin events
      BY <3>1, NewEventsType DEF AlertInv, KeyInv
    <3>3. told \subseteq User \X events
      BY DEF AlertInv, AlertTypeOK
    <3>4. ASSUME e \in NewEvents(k, s)
          PROVE  Recipients(StoreOfEvent(e), "defect_detected")
                   = Willing(StoreOfEvent(e), "defect_detected")
      <4>1. e.key = k /\ k[1] \in Stored
        BY <3>4, NewEventsType DEF NewEvents
      <4>2. StoreOfEvent(e) \in Store
        BY <4>1, StoreAssumption DEF StoreOfEvent
      <4>3. OffInv /\ "defect_detected" \in Kind
        BY DEF AlertInv, Kind
      <4>4. QED
        BY <4>2, <4>3, RecipientsAreWilling, Zenon
    <3>5. QED
      BY <3>1, <3>2, <3>3, <3>4 DEF Deliveries
  <2>2. CASE UNCHANGED <<events, told>>
    BY <2>2
  <2>3. QED
    BY <2>1, <2>2
       DEF AlertNext, UploadQuietly, IngestQuietly, alertVars, vars
<1>2. QED
  BY <1>1, AlertInvHolds, PTL DEF AlertSpec, ToldAsWished
=============================================================================
