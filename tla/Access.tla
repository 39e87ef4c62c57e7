------------------------------- MODULE Access -------------------------------
(***************************************************************************)
(* Who may do what where: users, stores, memberships, devices, and the     *)
(* active store and device ("context") of each user.  The bot's users act  *)
(* for themselves; administrators act on others, the bootstrap one always  *)
(* and the members of a store who hold an administrative role within it.   *)
(*                                                                         *)
(* Each operation is one SQLite transaction and so one step.  A request of *)
(* an administrator has two: the roles it is allowed by are read when the  *)
(* request is authenticated, and the operation runs later; meanwhile other *)
(* requests change the memberships.                                        *)
(*                                                                         *)
(* A membership row that was revoked never comes back, and an index keeps  *)
(* the others unique, so a user has at most one role in a store.           *)
(***************************************************************************)
EXTENDS Naturals

CONSTANTS
  User, Store, Device,
  Role,         \* the role registry, config/roles.json
  AdminRoles,   \* roles with admin_ui.access, and so all administration
  InviteRoles,  \* ALLOWED_STAFF_INVITE_ROLES
  Priority,     \* [Role -> Nat]: the smaller the stronger
  Bootstrap     \* the actor behind the admin key or the bootstrap account

NoRole == "no role"
NoStore == "no store"
NoRow == "no row"
NoDevice == "no device"

ASSUME RegistryAssumption ==
  /\ AdminRoles \subseteq Role
  /\ InviteRoles \subseteq Role
  /\ Priority \in [Role -> Nat]
  /\ NoRole \notin Role

ASSUME NameAssumption ==
  /\ Bootstrap \notin User
  /\ NoStore \notin Store
  /\ NoRow \notin Store
  /\ NoDevice \notin Device

VARIABLES
  known,         \* SUBSET User: rows of users
  banned,        \* SUBSET User: is_banned
  stores,        \* SUBSET Store: rows of stores
  open,          \* SUBSET Store: is_active
  role,          \* [User -> [Store -> Role or NoRole]]: unrevoked memberships
  activeStore,   \* [User -> Store, NoStore or NoRow]: user_context
  activeDevice,  \* [User -> Device or NoDevice]: user_context
  home,          \* [Device -> Store or NoStore]: devices.store_id
  retired,       \* SUBSET Device: decommissioned_at is set
  scope          \* [User -> SUBSET Store]: the stores where the user held an
                 \* administrative role when its request was authenticated

context == <<activeStore, activeDevice>>
people == <<known, banned>>
shops == <<stores, open>>
hardware == <<home, retired>>
vars == <<people, shops, role, context, hardware, scope>>

Member(u, s) == role[u][s] # NoRole

Init ==
  /\ known = {}
  /\ banned = {}
  /\ stores = {}
  /\ open = {}
  /\ role = [u \in User |-> [s \in Store |-> NoRole]]
  /\ activeStore = [u \in User |-> NoRow]
  /\ activeDevice = [u \in User |-> NoDevice]
  /\ home = [d \in Device |-> NoStore]
  /\ retired = {}
  /\ scope = [u \in User |-> {}]
-----------------------------------------------------------------------------
\* The context as it may be used: resolve_effective_user_context.
EffectiveStore(u) ==
  IF activeStore[u] \in open /\ Member(u, activeStore[u]) THEN activeStore[u]
                                                         ELSE NoStore

LiveDevices(s) == {d \in Device : home[d] = s} \ retired

EffectiveDevice(u) ==
  IF activeDevice[u] \in LiveDevices(EffectiveStore(u)) THEN activeDevice[u]
                                                        ELSE NoDevice

\* An operation of an actor passes the door if its roles allowed it then; a
\* member's request is over with its operation.
Passes(actor, s) == actor # Bootstrap => s \in scope[actor]

Ends(actor) ==
  scope' = [u \in User |-> IF u = actor THEN {} ELSE scope[u]]

\* Faulty variant: what was seen at the door is taken for the transaction.
OutranksAtTheDoor(actor, s, r) == TRUE

\* What the transaction itself asks of an actor who deals with a role: to
\* hold, now and in this store, an administrative role that is stronger.
Outranks(actor, s, r) ==
  actor # Bootstrap => /\ role[actor][s] \in AdminRoles
                       /\ Priority[role[actor][s]] < Priority[r]

-----------------------------------------------------------------------------
EnsureSession(u) ==
  /\ known' = known \cup {u}
  /\ UNCHANGED <<banned, shops, role, context, hardware, scope>>

SetBan(u) ==
  /\ u \in known
  /\ banned' \in {banned \cup {u}, banned \ {u}}
  /\ UNCHANGED <<known, shops, role, context, hardware, scope>>

CreateStore(s) ==
  /\ s \notin stores
  /\ stores' = stores \cup {s}
  /\ open' \in {open, open \cup {s}}
  /\ UNCHANGED <<people, role, context, hardware, scope>>

\* A store is closed or opened; nothing else is touched.
UpdateStore(actor, s) ==
  /\ Passes(actor, s)
  /\ s \in stores
  /\ open' \in {open \cup {s}, open \ {s}}
  /\ Ends(actor)
  /\ UNCHANGED <<people, stores, role, context, hardware>>

\* A connector registers with an enroll token of the store, open or closed.
RegisterDevice(d, s) ==
  /\ s \in stores
  /\ home[d] = NoStore
  /\ home' = [home EXCEPT ![d] = s]
  /\ UNCHANGED <<people, shops, role, context, retired, scope>>

\* Faulty variant: the contexts that name the device are left alone.
DecommissionOnly(actor, d) ==
  /\ home[d] # NoStore
  /\ d \notin retired
  /\ Passes(actor, home[d])
  /\ retired' = retired \cup {d}
  /\ Ends(actor)
  /\ UNCHANGED <<people, shops, role, context, home>>

\* Faulty variant: an administrative role in any store will do.
DecommissionByAny(actor, d) ==
  /\ home[d] # NoStore
  /\ d \notin retired
  /\ \E s \in Store : Passes(actor, s)
  /\ retired' = retired \cup {d}
  /\ activeDevice' = [u \in User |-> IF activeDevice[u] = d THEN NoDevice
                                                          ELSE activeDevice[u]]
  /\ Ends(actor)
  /\ UNCHANGED <<people, shops, role, activeStore, home>>

DecommissionDevice(actor, d) ==
  /\ home[d] # NoStore
  /\ d \notin retired
  /\ Passes(actor, home[d])
  /\ retired' = retired \cup {d}
  /\ activeDevice' = [u \in User |-> IF activeDevice[u] = d THEN NoDevice
                                                          ELSE activeDevice[u]]
  /\ Ends(actor)
  /\ UNCHANGED <<people, shops, role, activeStore, home>>

\* A member's request to the administration is authenticated.
Authenticate(u) ==
  LET administered == {s \in Store : role[u][s] \in AdminRoles} IN
  /\ scope[u] = {}
  /\ u \in known \ banned
  /\ administered # {}
  /\ scope' = [scope EXCEPT ![u] = administered]
  /\ UNCHANGED <<people, shops, role, context, hardware>>

\* The operation is refused, or changes nothing.
Refuse(u) ==
  /\ scope[u] # {}
  /\ Ends(u)
  /\ UNCHANGED <<people, shops, role, context, hardware>>
-----------------------------------------------------------------------------
\* upsert_user_context: a chosen store has no device chosen yet.
Choose(u, s) ==
  /\ activeStore' = [activeStore EXCEPT ![u] = s]
  /\ activeDevice' = [activeDevice EXCEPT ![u] = NoDevice]

\* An administrator gives a user a role in a store, or another one; the store
\* becomes the active one if asked for, or if the user never had a context.
Grant(actor, u, s, r) ==
  /\ Passes(actor, s)
  /\ u \in known \ banned
  /\ s \in stores
  /\ Outranks(actor, s, r)
  /\ Member(u, s) => Outranks(actor, s, role[u][s])
  /\ role' = [role EXCEPT ![u][s] = r]
  /\ \/ Choose(u, s)
     \/ activeStore[u] # NoRow /\ UNCHANGED context
  /\ Ends(actor)
  /\ UNCHANGED <<people, shops, hardware>>

\* The context after a revocation: the next store of the user that is open
\* takes the place of the revoked one; then what cannot be used is dropped,
\* also when another store was revoked.
Usable(u, s) == {t \in open : Member(u, t)} \ {s}

\* Faulty variant: the context is not looked at.
DropMembershipOnly(u, s) ==
  /\ role' = [role EXCEPT ![u][s] = NoRole]
  /\ UNCHANGED context

DropMembership(u, s) ==
  /\ role' = [role EXCEPT ![u][s] = NoRole]
  /\ IF activeStore[u] = s
       THEN \/ \E t \in Usable(u, s) : Choose(u, t)
            \/ Usable(u, s) = {} /\ Choose(u, NoStore)
       ELSE IF activeStore[u] = NoRow THEN UNCHANGED context
       ELSE /\ activeStore' = [activeStore EXCEPT ![u] = EffectiveStore(u)]
            /\ activeDevice' = [activeDevice EXCEPT ![u] = EffectiveDevice(u)]

Revoke(actor, u, s) ==
  /\ Passes(actor, s)
  /\ Member(u, s)
  /\ Outranks(actor, s, role[u][s])
  /\ DropMembership(u, s)
  /\ Ends(actor)
  /\ UNCHANGED <<people, shops, hardware>>

RevokeSelf(u, s) ==
  /\ u \in known \ banned
  /\ Member(u, s)
  /\ DropMembership(u, s)
  /\ UNCHANGED <<people, shops, hardware, scope>>

\* A valid invite of an open store makes its redeemer a member, unless it is
\* one, and the store its active one.
Admit(u, s, r) ==
  /\ u \in known \ banned
  /\ s \in open
  /\ role' = IF Member(u, s) THEN role ELSE [role EXCEPT ![u][s] = r]
  /\ Choose(u, s)
  /\ UNCHANGED <<people, shops, hardware, scope>>

SelectStore(u, s) ==
  /\ u \in known \ banned
  /\ s \in open
  /\ Member(u, s)
  /\ Choose(u, s)
  /\ UNCHANGED <<people, shops, role, hardware, scope>>

SelectDevice(u, d) ==
  /\ u \in known \ banned
  /\ EffectiveStore(u) # NoStore
  /\ d \in LiveDevices(EffectiveStore(u))
  /\ activeDevice' = [activeDevice EXCEPT ![u] = d]
  /\ UNCHANGED <<people, shops, role, activeStore, hardware, scope>>
-----------------------------------------------------------------------------
UserStep(u) ==
  \/ EnsureSession(u)
  \/ \E s \in Store : RevokeSelf(u, s) \/ SelectStore(u, s)
  \/ \E d \in Device : SelectDevice(u, d)

ActorStep(actor) ==
  \/ \E s \in Store : UpdateStore(actor, s)
  \/ \E d \in Device : DecommissionDevice(actor, d)
  \/ \E u \in User, s \in Store :
       Revoke(actor, u, s) \/ \E r \in Role : Grant(actor, u, s, r)

BootstrapStep ==
  \/ \E u \in User : SetBan(u)
  \/ \E s \in Store : CreateStore(s)

\* What invites and enroll tokens bring about; AccessCodes says when.
Entry ==
  \/ \E u \in User, s \in Store, r \in InviteRoles : Admit(u, s, r)
  \/ \E d \in Device, s \in Store : RegisterDevice(d, s)

Next ==
  \/ \E u \in User : UserStep(u) \/ Authenticate(u) \/ Refuse(u)
  \/ \E actor \in User \cup {Bootstrap} : ActorStep(actor)
  \/ BootstrapStep
  \/ Entry

Spec == Init /\ [][Next]_vars
-----------------------------------------------------------------------------
TypeOK ==
  /\ known \in SUBSET User
  /\ banned \in SUBSET known
  /\ stores \in SUBSET Store
  /\ open \in SUBSET stores
  /\ role \in [User -> [Store -> Role \cup {NoRole}]]
  /\ activeStore \in [User -> Store \cup {NoStore, NoRow}]
  /\ activeDevice \in [User -> Device \cup {NoDevice}]
  /\ home \in [Device -> Store \cup {NoStore}]
  /\ retired \in SUBSET Device
  /\ scope \in [User -> SUBSET Store]

(***************************************************************************)
(* Whatever administrators and the user do, in any order, the stored       *)
(* active store of a user is one the user is a member of: no path that     *)
(* ends a membership leaves it behind (normalize_user_context_after_       *)
(* membership_change).                                                     *)
(***************************************************************************)
ContextIsMember ==
  \A u \in User : activeStore[u] \in Store => Member(u, activeStore[u])

(***************************************************************************)
(* The stored active device is in the active store and in service.  The    *)
(* command handler relies on it: a context it has to repair opens a        *)
(* transaction, and its own BEGIN IMMEDIATE (bot.py:1823) then raises.     *)
(***************************************************************************)
ContextDeviceIsLive ==
  \A u \in User :
    activeDevice[u] # NoDevice =>
      /\ activeStore[u] \in Store
      /\ activeDevice[u] \in LiveDevices(activeStore[u])

(***************************************************************************)
(* A member who changes a membership has the authority at that moment, and *)
(* not only when the request was authenticated: an administrative role in  *)
(* the store, stronger than the role given and the role taken.             *)
(***************************************************************************)
AuthorityIsCurrent ==
  [][\A a, u \in User, s \in Store :
       scope[a] # {} /\ scope'[a] = {} /\ role'[u][s] # role[u][s] =>
         /\ role[a][s] \in AdminRoles
         /\ \A r \in {role[u][s], role'[u][s]} \ {NoRole} :
              Priority[role[a][s]] < Priority[r]]_vars

(***************************************************************************)
(* Stores are kept apart.  The roles a request came with may have been     *)
(* taken away since, and most operations do not look again                 *)
(* (admin_ops.py:902); but what it changes, it changes in stores that its  *)
(* sender administered then: their members' roles, whether they are open,  *)
(* their devices.                                                          *)
(***************************************************************************)
Elsewhere(a) == Store \ scope[a]

StoresAreApart ==
  [][\A a \in User : scope[a] # {} /\ scope'[a] = {} =>
       /\ known' = known /\ banned' = banned /\ stores' = stores /\ home' = home
       /\ open' \cap Elsewhere(a) = open \cap Elsewhere(a)
       /\ \A u \in User, s \in Elsewhere(a) : role'[u][s] = role[u][s]
       /\ \A s \in Elsewhere(a) : LiveDevices(s)' = LiveDevices(s)]_vars
=============================================================================
