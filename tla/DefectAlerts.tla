---------------------------- MODULE DefectAlerts ----------------------------
(***************************************************************************)
(* Uploaded scans and the users who are told of their defects: the upload  *)
(* (DefectIngest) resolves the recipients of each event it makes           *)
(* (Recipients) and inserts their deliveries, in its one transaction,      *)
(* while memberships, bans and settings change before and after.           *)
(***************************************************************************)
EXTENDS DefectIngest, Recipients

CONSTANT
  StoreOf  \* [Stored -> Store]: devices.store_id

ASSUME StoreAssumption == StoreOf \in [Stored -> Store]

VARIABLE
  told  \* SUBSET (User \X Event): notification_deliveries

alertVars == <<vars, recipientVars, told>>

AlertInit == Init /\ RecipientInit /\ told = {}
-----------------------------------------------------------------------------
StoreOfEvent(e) == StoreOf[e.key[1]]

\* create_event_with_deliveries, for each event of the scan.
Deliveries(E) ==
  {d \in User \X E : d[1] \in Recipients(StoreOfEvent(d[2]), "defect_detected")}

Upload(k, s) ==
  /\ Ingest(k, s)
  /\ told' = told \cup Deliveries(NewEvents(k, s))
  /\ UNCHANGED recipientVars

UploadQuietly(k, s) == IngestQuietly(k, s) /\ UNCHANGED <<recipientVars, told>>

AlertNext ==
  \/ \E k \in Key, s \in Scan : Upload(k, s) \/ UploadQuietly(k, s)
  \/ RecipientNext /\ UNCHANGED <<vars, told>>

AlertSpec == AlertInit /\ [][AlertNext]_alertVars
-----------------------------------------------------------------------------
AlertTypeOK ==
  /\ TypeOK
  /\ RecipientTypeOK
  /\ told \subseteq User \X events

(***************************************************************************)
(* Of a new defect are told exactly the members who may be told and have   *)
(* not turned it off, by their last word on it in whatever updates, roles  *)
(* and memberships they had since; of an old one nobody any more.          *)
(***************************************************************************)
ToldAsWished ==
  [][\A u \in User, e \in events' :
       <<u, e>> \in told' \ told <=>
         e \notin events /\ u \in Willing(StoreOfEvent(e), "defect_detected")]_alertVars
=============================================================================
