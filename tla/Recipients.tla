------------------------------ MODULE Recipients ------------------------------
(***************************************************************************)
(* Who is told of an event: the members of its store whose role permits    *)
(* it, who are not banned and have not turned it off.                      *)
(*                                                                         *)
(* Preferences are kept per user and store, apart from memberships: their  *)
(* row is made by the first update, outlives the membership, and says      *)
(* "on" as long as there is none.  An update names the toggles it sets and *)
(* leaves the others.  The model reduces what Access does to memberships,  *)
(* bans and stores to their effect, at any moment.                         *)
(***************************************************************************)
EXTENDS Naturals

CONSTANTS
  User,
  Store,
  Role,
  NoRole,
  Permits,  \* [Role -> SUBSET Permission]: config/roles.json
  NoRow

\* What can be turned off for itself, and what an event may be of.
Kind == {"device_status", "defect_detected"}
Permission == Kind \cup {"access"}
Toggle == Kind \cup {"notifications"}

ASSUME RecipientAssumption ==
  /\ NoRole \notin Role
  /\ Permits \in [Role -> SUBSET Permission]
  /\ NoRow \notin [Toggle -> BOOLEAN]

\* What an update says: of at least one toggle, on or off.
Choice == UNION {[T -> BOOLEAN] : T \in SUBSET Toggle \ {{}}}

VARIABLES
  role,    \* [User -> [Store -> Role or NoRole]]: the unrevoked memberships
  banned,  \* SUBSET User
  open,    \* SUBSET Store: stores.is_active
  prefs,   \* [User -> [Store -> [Toggle -> BOOLEAN] or NoRow]]
  off      \* history, [User -> [Store -> SUBSET Toggle]]: the toggles that the
           \* user has last turned off, not on

recipientVars == <<role, banned, open, prefs, off>>

RecipientInit ==
  /\ role \in [User -> [Store -> Role \cup {NoRole}]]
  /\ banned = {}
  /\ open = Store
  /\ prefs = [u \in User |-> [s \in Store |-> NoRow]]
  /\ off = [u \in User |-> [s \in Store |-> {}]]
-----------------------------------------------------------------------------
\* load_notification_preferences: everything is on by default.
Current(u, s) == IF prefs[u][s] = NoRow THEN [t \in Toggle |-> TRUE] ELSE prefs[u][s]

Permitted(u, s, p) == role[u][s] # NoRole /\ p \in Permits[role[u][s]]

\* resolve_eligible_recipients.  Whether the store is open is not asked.
Eligible(u, s, k) ==
  /\ u \notin banned
  /\ Permitted(u, s, "access") /\ Permitted(u, s, k)
  /\ Current(u, s)["notifications"] /\ Current(u, s)[k]

Recipients(s, k) == {u \in User : Eligible(u, s, k)}

\* Faulty variant: a toggle that is not named goes back to its default.
MergedWithDefaults(u, s, choice) ==
  [t \in Toggle |-> IF t \in DOMAIN choice THEN choice[t] ELSE TRUE]

Merged(u, s, choice) ==
  [t \in Toggle |-> IF t \in DOMAIN choice THEN choice[t] ELSE Current(u, s)[t]]

MayUpdate(u, s, T) ==
  /\ u \notin banned
  /\ s \in open
  /\ Permitted(u, s, "access")
  /\ \A k \in T \cap Kind : Permitted(u, s, k)

(***************************************************************************)
(* The settings of a store.  The older endpoint does the same to the store *)
(* that is active for the user, which is one of the open ones.             *)
(***************************************************************************)
UpdateSettings(u, s, choice) ==
  /\ MayUpdate(u, s, DOMAIN choice)
  /\ prefs' = [prefs EXCEPT ![u][s] = Merged(u, s, choice)]
  /\ off' = [off EXCEPT ![u][s] =
               {t \in Toggle : IF t \in DOMAIN choice THEN ~choice[t] ELSE t \in @}]
  /\ UNCHANGED <<role, banned, open>>

\* A membership begins, changes its role or ends.
ChangeRole(u, s, r) ==
  /\ r # role[u][s]
  /\ role' = [role EXCEPT ![u][s] = r]
  /\ UNCHANGED <<banned, open, prefs, off>>

Ban(u) ==
  /\ u \notin banned
  /\ banned' = banned \cup {u}
  /\ UNCHANGED <<role, open, prefs, off>>

Unban(u) ==
  /\ u \in banned
  /\ banned' = banned \ {u}
  /\ UNCHANGED <<role, open, prefs, off>>

\* A store is closed or opened.
ToggleStore(s) ==
  /\ open' = IF s \in open THEN open \ {s} ELSE open \cup {s}
  /\ UNCHANGED <<role, banned, prefs, off>>

RecipientNext ==
  \/ \E u \in User :
       \/ Ban(u) \/ Unban(u)
       \/ \E s \in Store : \/ \E choice \in Choice : UpdateSettings(u, s, choice)
                           \/ \E r \in Role \cup {NoRole} : ChangeRole(u, s, r)
  \/ \E s \in Store : ToggleStore(s)
-----------------------------------------------------------------------------
RecipientTypeOK ==
  /\ role \in [User -> [Store -> Role \cup {NoRole}]]
  /\ banned \subseteq User
  /\ open \subseteq Store
  /\ prefs \in [User -> [Store -> [Toggle -> BOOLEAN] \cup {NoRow}]]
  /\ off \in [User -> [Store -> SUBSET Toggle]]

\* By what users are and have said: who wants to be told, and may be.
Willing(s, k) ==
  {u \in User \ banned : /\ Permitted(u, s, "access") /\ Permitted(u, s, k)
                         /\ off[u][s] \cap {"notifications", k} = {}}
=============================================================================
