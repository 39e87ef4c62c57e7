-------------------------- MODULE AccessCodes_proofs --------------------------
(***************************************************************************)
(* Theorems about access, for any users, stores, devices and any registry  *)
(* of roles: what a context may name, and by whose authority memberships   *)
(* change; and about invites and enroll tokens, for any number of them,    *)
(* any codes and any limits: their steps are steps of Access, a code that  *)
(* can be redeemed names one invite, and each lets in what its limit says. *)
(***************************************************************************)
EXTENDS AccessCodes, TLAPS

IInv == TypeOK /\ ContextIsMember /\ ContextDeviceIsLive
-----------------------------------------------------------------------------
USE RegistryAssumption, NameAssumption

\* What can be used of a well typed context is well typed.
LEMMA EffectiveType ==
  ASSUME TypeOK, NEW u \in User
  PROVE  /\ EffectiveStore(u) \in Store \cup {NoStore}
         /\ EffectiveDevice(u) \in Device \cup {NoDevice}
  BY DEF TypeOK, EffectiveStore, EffectiveDevice, LiveDevices

\* Ending a membership keeps the types.
LEMMA DropMembershipType ==
  ASSUME TypeOK, NEW u \in User, NEW s \in Store, DropMembership(u, s)
  PROVE  /\ role' \in [User -> [Store -> Role \cup {NoRole}]]
         /\ activeStore' \in [User -> Store \cup {NoStore, NoRow}]
         /\ activeDevice' \in [User -> Device \cup {NoDevice}]
<1>1. role' \in [User -> [Store -> Role \cup {NoRole}]]
  BY DEF TypeOK, DropMembership
<1>2. ASSUME NEW t \in Store \cup {NoStore}, Choose(u, t)
      PROVE  /\ activeStore' \in [User -> Store \cup {NoStore, NoRow}]
             /\ activeDevice' \in [User -> Device \cup {NoDevice}]
  BY <1>2 DEF TypeOK, Choose
<1>3. CASE activeStore[u] = s
  <2>1. \A t \in Usable(u, s) : t \in Store
    BY DEF TypeOK, Usable
  <2>2. \/ \E t \in Usable(u, s) : Choose(u, t)
        \/ Choose(u, NoStore)
    BY <1>3 DEF DropMembership
  <2> QED BY <1>1, <1>2, <2>1, <2>2
<1>4. CASE activeStore[u] # s
  <2>1. EffectiveStore(u) \in Store \cup {NoStore}
    BY EffectiveType
  <2>2. EffectiveDevice(u) \in Device \cup {NoDevice}
    BY EffectiveType
  <2>3. CASE UNCHANGED context
    BY <1>1, <2>3 DEF TypeOK, context
  <2>4. CASE ~UNCHANGED context
    <3>1. /\ activeStore' = [activeStore EXCEPT ![u] = EffectiveStore(u)]
          /\ activeDevice' = [activeDevice EXCEPT ![u] = EffectiveDevice(u)]
      BY <1>4, <2>4 DEF DropMembership
    <3>2. activeStore' \in [User -> Store \cup {NoStore, NoRow}]
      BY <2>1, <3>1 DEF TypeOK
    <3>3. activeDevice' \in [User -> Device \cup {NoDevice}]
      BY <2>2, <3>1 DEF TypeOK
    <3> QED BY <1>1, <3>2, <3>3
  <2> QED BY <2>3, <2>4
<1> QED BY <1>3, <1>4

LEMMA TypeStep == TypeOK /\ [Next]_vars => TypeOK'
<1> SUFFICES ASSUME TypeOK, [Next]_vars PROVE TypeOK' OBVIOUS
<1>1. CASE UNCHANGED vars
  BY <1>1 DEF TypeOK, vars, people, shops, context, hardware
<1>2. ASSUME NEW u \in User, UserStep(u) PROVE TypeOK'
  <2>1. CASE EnsureSession(u)
    BY <2>1 DEF TypeOK, EnsureSession, shops, context, hardware
  <2>2. ASSUME NEW s \in Store, RevokeSelf(u, s) PROVE TypeOK'
    BY <2>2, DropMembershipType DEF TypeOK, RevokeSelf, people, shops, hardware
  <2>3. ASSUME NEW s \in Store, SelectStore(u, s) PROVE TypeOK'
    BY <2>3 DEF TypeOK, SelectStore, Choose, people, shops, hardware
  <2>4. ASSUME NEW d \in Device, SelectDevice(u, d) PROVE TypeOK'
    BY <2>4 DEF TypeOK, SelectDevice, people, shops, hardware
  <2> QED BY <1>2, <2>1, <2>2, <2>3, <2>4 DEF UserStep
<1>3. ASSUME NEW u \in User, Authenticate(u) \/ Refuse(u) PROVE TypeOK'
  BY <1>3 DEF TypeOK, Authenticate, Refuse, Ends, people, shops, context, hardware
<1>4. ASSUME NEW actor \in User \cup {Bootstrap}, ActorStep(actor) PROVE TypeOK'
  <2>1. ASSUME NEW s \in Store, UpdateStore(actor, s) PROVE TypeOK'
    BY <2>1 DEF TypeOK, UpdateStore, Ends, people, context, hardware
  <2>2. ASSUME NEW d \in Device, DecommissionDevice(actor, d) PROVE TypeOK'
    BY <2>2 DEF TypeOK, DecommissionDevice, Ends, people, shops
  <2>3. ASSUME NEW u \in User, NEW s \in Store, Revoke(actor, u, s) PROVE TypeOK'
    BY <2>3, DropMembershipType DEF TypeOK, Revoke, Ends, people, shops, hardware
  <2>4. ASSUME NEW u \in User, NEW s \in Store, NEW r \in Role,
               Grant(actor, u, s, r)
        PROVE  TypeOK'
    BY <2>4 DEF TypeOK, Grant, Choose, Ends, people, shops, context, hardware
  <2> QED BY <1>4, <2>1, <2>2, <2>3, <2>4 DEF ActorStep
<1>5. CASE BootstrapStep
  <2>1. ASSUME NEW u \in User, SetBan(u) PROVE TypeOK'
    BY <2>1 DEF TypeOK, SetBan, shops, context, hardware
  <2>2. ASSUME NEW s \in Store, CreateStore(s) PROVE TypeOK'
    BY <2>2 DEF TypeOK, CreateStore, people, context, hardware
  <2> QED BY <1>5, <2>1, <2>2 DEF BootstrapStep
<1>6. CASE Entry
  <2>1. ASSUME NEW u \in User, NEW s \in Store, NEW r \in InviteRoles, Admit(u, s, r)
        PROVE  TypeOK'
    BY <2>1 DEF TypeOK, Admit, Choose, people, shops, hardware
  <2>2. ASSUME NEW d \in Device, NEW s \in Store, RegisterDevice(d, s)
        PROVE  TypeOK'
    BY <2>2 DEF TypeOK, RegisterDevice, people, shops, context
  <2> QED BY <1>6, <2>1, <2>2 DEF Entry
<1> QED BY <1>1, <1>2, <1>3, <1>4, <1>5, <1>6 DEF Next

(***************************************************************************)
(* Every reachable state is well typed; in particular only known users are *)
(* banned and only existing stores are open.                               *)
(***************************************************************************)
THEOREM TypeCorrect == Spec => []TypeOK
<1>1. Init => TypeOK
  BY DEF Init, TypeOK
<1> QED BY <1>1, TypeStep, PTL DEF Spec
-----------------------------------------------------------------------------
\* What is dropped, and what takes its place, leaves a valid context.
LEMMA DropMembershipContext ==
  ASSUME IInv, NEW u \in User, NEW s \in Store, DropMembership(u, s),
         UNCHANGED hardware
  PROVE  ContextIsMember' /\ ContextDeviceIsLive'
<1>1. \A v \in User, t \in Store : v # u \/ t # s => role'[v][t] = role[v][t]
  BY DEF IInv, TypeOK, DropMembership
<1>2. \A v \in User \ {u} : /\ activeStore'[v] = activeStore[v]
                           /\ activeDevice'[v] = activeDevice[v]
  BY DEF IInv, TypeOK, DropMembership, Choose, context
<1>3. CASE activeStore[u] = s
  <2>1. \A t \in Usable(u, s) : t \in Store /\ t # s /\ Member(u, t)
    BY DEF IInv, TypeOK, Usable
  <2>2. PICK t \in Usable(u, s) \cup {NoStore} : Choose(u, t)
    BY <1>3 DEF DropMembership
  <2>3. activeStore'[u] = t /\ activeDevice'[u] = NoDevice
    BY <2>2 DEF Choose, IInv, TypeOK
  <2>4. activeStore'[u] \in Store => role'[u][activeStore'[u]] # NoRole
    BY <1>1, <2>1, <2>3 DEF Member
  <2> QED BY <1>1, <1>2, <2>3, <2>4
          DEF IInv, ContextIsMember, ContextDeviceIsLive, Member, LiveDevices, hardware
<1>4. CASE activeStore[u] # s /\ activeStore[u] # NoRow
  <2>1. /\ activeStore' = [activeStore EXCEPT ![u] = EffectiveStore(u)]
        /\ activeDevice' = [activeDevice EXCEPT ![u] = EffectiveDevice(u)]
    BY <1>4 DEF DropMembership, IInv, TypeOK
  <2>2. activeStore'[u] = EffectiveStore(u) /\ activeDevice'[u] = EffectiveDevice(u)
    BY <2>1 DEF IInv, TypeOK
  <2>3. EffectiveStore(u) \in Store =>
          EffectiveStore(u) = activeStore[u] /\ Member(u, activeStore[u])
    BY DEF EffectiveStore
  <2>4. EffectiveDevice(u) # NoDevice =>
          /\ EffectiveStore(u) \in Store
          /\ EffectiveDevice(u) \in LiveDevices(EffectiveStore(u))
    <3>1. SUFFICES ASSUME EffectiveDevice(u) # NoDevice
                   PROVE  /\ EffectiveStore(u) \in Store
                          /\ EffectiveDevice(u) \in LiveDevices(EffectiveStore(u))
      OBVIOUS
    <3>2. /\ EffectiveDevice(u) = activeDevice[u]
          /\ activeDevice[u] \in LiveDevices(EffectiveStore(u))
      BY <3>1 DEF EffectiveDevice
    <3>3. activeStore[u] \in Store /\ home[activeDevice[u]] = activeStore[u]
      BY <3>1, <3>2 DEF IInv, ContextDeviceIsLive, LiveDevices
    <3> QED BY <3>2, <3>3 DEF LiveDevices, EffectiveStore
  <2> QED BY <1>1, <1>2, <1>4, <2>2, <2>3, <2>4
          DEF IInv, ContextIsMember, ContextDeviceIsLive, Member, LiveDevices, hardware
<1>5. CASE activeStore[u] = NoRow /\ activeStore[u] # s
  <2>1. UNCHANGED context
    BY <1>5 DEF DropMembership
  <2> QED BY <1>1, <1>5, <2>1
          DEF IInv, ContextIsMember, ContextDeviceIsLive, Member, LiveDevices, hardware,
              context
<1> QED BY <1>3, <1>4, <1>5

LEMMA ContextStep ==
  IInv /\ [Next]_vars => ContextIsMember' /\ ContextDeviceIsLive'
<1> SUFFICES ASSUME IInv, [Next]_vars
             PROVE  ContextIsMember' /\ ContextDeviceIsLive'
  OBVIOUS
<1> USE DEF IInv, ContextIsMember, ContextDeviceIsLive, Member, LiveDevices
<1>1. CASE UNCHANGED vars
  BY <1>1 DEF vars, context, hardware
<1>2. ASSUME NEW u \in User, UserStep(u)
      PROVE  ContextIsMember' /\ ContextDeviceIsLive'
  <2>1. CASE EnsureSession(u)
    BY <2>1 DEF EnsureSession, context, hardware
  <2>2. ASSUME NEW s \in Store, RevokeSelf(u, s)
        PROVE  ContextIsMember' /\ ContextDeviceIsLive'
    BY <2>2, DropMembershipContext DEF RevokeSelf
  <2>3. ASSUME NEW s \in Store, SelectStore(u, s)
        PROVE  ContextIsMember' /\ ContextDeviceIsLive'
    BY <2>3 DEF TypeOK, SelectStore, Choose, hardware
  <2>4. ASSUME NEW d \in Device, SelectDevice(u, d)
        PROVE  ContextIsMember' /\ ContextDeviceIsLive'
    <3>1. EffectiveStore(u) = activeStore[u] /\ activeStore[u] \in Store
      BY <2>4 DEF TypeOK, SelectDevice, EffectiveStore
    <3> QED BY <2>4, <3>1 DEF TypeOK, SelectDevice, hardware
  <2> QED BY <1>2, <2>1, <2>2, <2>3, <2>4 DEF UserStep
<1>3. ASSUME NEW u \in User, Authenticate(u) \/ Refuse(u)
      PROVE  ContextIsMember' /\ ContextDeviceIsLive'
  BY <1>3 DEF Authenticate, Refuse, context, hardware
<1>4. ASSUME NEW actor \in User \cup {Bootstrap}, ActorStep(actor)
      PROVE  ContextIsMember' /\ ContextDeviceIsLive'
  <2>1. ASSUME NEW s \in Store, UpdateStore(actor, s)
        PROVE  ContextIsMember' /\ ContextDeviceIsLive'
    BY <2>1 DEF UpdateStore, context, hardware
  <2>2. ASSUME NEW d \in Device, DecommissionDevice(actor, d)
        PROVE  ContextIsMember' /\ ContextDeviceIsLive'
    BY <2>2 DEF TypeOK, DecommissionDevice
  <2>3. ASSUME NEW u \in User, NEW s \in Store, Revoke(actor, u, s)
        PROVE  ContextIsMember' /\ ContextDeviceIsLive'
    BY <2>3, DropMembershipContext DEF Revoke
  <2>4. ASSUME NEW u \in User, NEW s \in Store, NEW r \in Role,
               Grant(actor, u, s, r)
        PROVE  ContextIsMember' /\ ContextDeviceIsLive'
    <3>1. role' = [role EXCEPT ![u][s] = r] /\ UNCHANGED hardware /\ r # NoRole
      BY <2>4 DEF Grant
    <3>2. CASE Choose(u, s)
      BY <3>1, <3>2 DEF TypeOK, Choose, hardware
    <3>3. CASE UNCHANGED context
      BY <3>1, <3>3 DEF TypeOK, context, hardware
    <3> QED BY <2>4, <3>2, <3>3 DEF Grant
  <2> QED BY <1>4, <2>1, <2>2, <2>3, <2>4 DEF ActorStep
<1>5. CASE BootstrapStep
  BY <1>5 DEF BootstrapStep, SetBan, CreateStore, context, hardware
<1>6. CASE Entry
  <2>1. ASSUME NEW u \in User, NEW s \in Store, NEW r \in InviteRoles, Admit(u, s, r)
        PROVE  ContextIsMember' /\ ContextDeviceIsLive'
    <3>1. r # NoRole
      OBVIOUS
    <3>2. \A v \in User, t \in Store :
            role[v][t] # NoRole \/ (v = u /\ t = s) => role'[v][t] # NoRole
      BY <2>1, <3>1 DEF TypeOK, Admit
    <3> QED BY <2>1, <3>2 DEF TypeOK, Admit, Choose, hardware
  <2>2. ASSUME NEW d \in Device, NEW s \in Store, RegisterDevice(d, s)
        PROVE  ContextIsMember' /\ ContextDeviceIsLive'
    BY <2>2 DEF TypeOK, RegisterDevice, context
  <2> QED BY <1>6, <2>1, <2>2 DEF Entry
<1> QED BY <1>1, <1>2, <1>3, <1>4, <1>5, <1>6 DEF Next

(***************************************************************************)
(* The inductive invariant: the two properties of the context are each     *)
(* other's hypothesis, as what replaces a revoked store is what could be   *)
(* used before.                                                            *)
(***************************************************************************)
THEOREM Invariance == Spec => []IInv
<1>1. Init => IInv
  BY DEF Init, IInv, TypeOK, ContextIsMember, ContextDeviceIsLive
<1>2. IInv /\ [Next]_vars => IInv'
  BY TypeStep, ContextStep DEF IInv
<1> QED BY <1>1, <1>2, PTL DEF Spec

(***************************************************************************)
(* No operation leaves the active store of a user at a store the user is   *)
(* not a member of.                                                        *)
(***************************************************************************)
THEOREM ContextsAreMemberships == Spec => []ContextIsMember
<1>1. IInv => ContextIsMember
  BY DEF IInv
<1> QED BY <1>1, Invariance, PTL

(***************************************************************************)
(* No operation leaves the active device of a user at one out of service   *)
(* or of another store.                                                    *)
(***************************************************************************)
THEOREM ContextDevicesAreLive == Spec => []ContextDeviceIsLive
<1>1. IInv => ContextDeviceIsLive
  BY DEF IInv
<1> QED BY <1>1, Invariance, PTL
-----------------------------------------------------------------------------
\* A step that ends a member's request is its operation or a refusal.
LEMMA EndsOwnRequest ==
  ASSUME TypeOK, NEW actor, NEW a \in User, Ends(actor),
         scope[a] # {}, scope'[a] = {}
  PROVE  a = actor
  BY DEF TypeOK, Ends

LEMMA AuthorityStep ==
  ASSUME TypeOK, [Next]_vars, NEW a \in User, NEW u \in User, NEW s \in Store,
         scope[a] # {}, scope'[a] = {}, role'[u][s] # role[u][s]
  PROVE  /\ role[a][s] \in AdminRoles
         /\ \A r \in {role[u][s], role'[u][s]} \ {NoRole} :
              Priority[role[a][s]] < Priority[r]
<1>1. PICK actor \in User \cup {Bootstrap} : ActorStep(actor)
  BY DEF Next, vars, people, shops, context, hardware, UserStep, EnsureSession,
         RevokeSelf, SelectStore, SelectDevice, Authenticate, Refuse, BootstrapStep,
         SetBan, CreateStore, Entry, Admit, RegisterDevice
<1>2. Ends(actor)
  BY <1>1 DEF ActorStep, UpdateStore, DecommissionDevice, Revoke, Grant
<1>3. actor = a /\ a # Bootstrap
  BY <1>2, EndsOwnRequest
<1>4. PICK v \in User, t \in Store :
        Revoke(a, v, t) \/ \E r \in Role : Grant(a, v, t, r)
  BY <1>1, <1>3 DEF ActorStep, UpdateStore, DecommissionDevice
<1>5. CASE Revoke(a, v, t)
  <2>1. role' = [role EXCEPT ![v][t] = NoRole] /\ Outranks(a, t, role[v][t])
    BY <1>5 DEF Revoke, DropMembership
  <2>2. v = u /\ t = s /\ role'[u][s] = NoRole
    BY <2>1 DEF TypeOK
  <2> QED BY <1>3, <2>1, <2>2 DEF Outranks
<1>6. ASSUME NEW r \in Role, Grant(a, v, t, r)
      PROVE  /\ role[a][s] \in AdminRoles
             /\ \A q \in {role[u][s], role'[u][s]} \ {NoRole} :
                  Priority[role[a][s]] < Priority[q]
  <2>1. /\ role' = [role EXCEPT ![v][t] = r]
        /\ Outranks(a, t, r)
        /\ role[v][t] # NoRole => Outranks(a, t, role[v][t])
    BY <1>6 DEF Grant, Member
  <2>2. v = u /\ t = s /\ role'[u][s] = r
    BY <2>1 DEF TypeOK
  <2> QED BY <1>3, <2>1, <2>2 DEF Outranks
<1> QED BY <1>4, <1>5, <1>6

(***************************************************************************)
(* However memberships change between the authentication of a member's     *)
(* request and its operation, the operation changes a membership only by   *)
(* the authority the member has then.                                      *)
(***************************************************************************)
THEOREM AuthorityHolds == Spec => AuthorityIsCurrent
<1>1. TypeOK /\ [Next]_vars =>
        [\A a, u \in User, s \in Store :
           scope[a] # {} /\ scope'[a] = {} /\ role'[u][s] # role[u][s] =>
             /\ role[a][s] \in AdminRoles
             /\ \A r \in {role[u][s], role'[u][s]} \ {NoRole} :
                  Priority[role[a][s]] < Priority[r]]_vars
  BY AuthorityStep
<1> QED BY <1>1, TypeCorrect, PTL DEF Spec, AuthorityIsCurrent

\* What the operations of a member's request leave alone.
LEMMA ApartStep ==
  ASSUME TypeOK, [Next]_vars, NEW a \in User, scope[a] # {}, scope'[a] = {}
  PROVE  /\ UNCHANGED <<people, stores, home>>
         /\ open' \cap Elsewhere(a) = open \cap Elsewhere(a)
         /\ \A u \in User, s \in Elsewhere(a) : role'[u][s] = role[u][s]
         /\ \A s \in Elsewhere(a) : LiveDevices(s)' = LiveDevices(s)
<1> DEFINE Apart == /\ UNCHANGED <<people, stores, home>>
                    /\ open' \cap Elsewhere(a) = open \cap Elsewhere(a)
                    /\ \A u \in User, s \in Elsewhere(a) : role'[u][s] = role[u][s]
                    /\ \A s \in Elsewhere(a) : LiveDevices(s)' = LiveDevices(s)
<1>1. CASE UNCHANGED <<people, shops, role, hardware>>
  BY <1>1 DEF people, shops, hardware, LiveDevices
<1>2. CASE ~UNCHANGED <<people, shops, role, hardware>>
  <2>1. PICK actor \in User \cup {Bootstrap} : ActorStep(actor)
    BY <1>2 DEF Next, vars, people, shops, context, hardware, UserStep,
           EnsureSession, RevokeSelf, SelectStore, SelectDevice, Authenticate, Refuse,
           BootstrapStep, SetBan, CreateStore, Entry, Admit, RegisterDevice
  <2>2. Ends(actor)
    BY <2>1 DEF ActorStep, UpdateStore, DecommissionDevice, Revoke, Grant
  <2>3. actor = a /\ a # Bootstrap
    BY <2>2, EndsOwnRequest
  <2>4. ASSUME NEW s \in Store, UpdateStore(a, s) PROVE Apart
    BY <2>3, <2>4 DEF UpdateStore, Passes, Elsewhere, people, hardware, LiveDevices
  <2>5. ASSUME NEW d \in Device, DecommissionDevice(a, d) PROVE Apart
    BY <2>3, <2>5 DEF DecommissionDevice, Passes, Elsewhere, people, shops, LiveDevices
  <2>6. ASSUME NEW u \in User, NEW s \in Store,
               Revoke(a, u, s) \/ \E r \in Role : Grant(a, u, s, r)
        PROVE  Apart
    <3>1. s \in scope[a] /\ UNCHANGED <<people, shops, hardware>>
      BY <2>3, <2>6 DEF Revoke, Grant, Passes
    <3>2. PICK r : role' = [role EXCEPT ![u][s] = r]
      BY <2>6 DEF Revoke, Grant, DropMembership
    <3>3. \A v \in User, t \in Elsewhere(a) : role'[v][t] = role[v][t]
      BY <3>1, <3>2 DEF TypeOK, Elsewhere
    <3> QED BY <3>1, <3>3 DEF people, shops, hardware, LiveDevices
  <2> QED BY <2>1, <2>3, <2>4, <2>5, <2>6 DEF ActorStep
<1> QED BY <1>1, <1>2

(***************************************************************************)
(* However stale its authority, a member's request changes nothing in the  *)
(* stores it did not administer when it was authenticated.                 *)
(***************************************************************************)
THEOREM StoresStayApart == Spec => StoresAreApart
<1>1. TypeOK /\ [Next]_vars =>
        \A a \in User : scope[a] # {} /\ scope'[a] = {} =>
          /\ known' = known /\ banned' = banned /\ stores' = stores /\ home' = home
          /\ open' \cap Elsewhere(a) = open \cap Elsewhere(a)
          /\ \A u \in User, s \in Elsewhere(a) : role'[u][s] = role[u][s]
          /\ \A s \in Elsewhere(a) : LiveDevices(s)' = LiveDevices(s)
  BY ApartStep DEF people
<1> QED BY <1>1, TypeCorrect, PTL DEF Spec, StoresAreApart
-----------------------------------------------------------------------------
\* The bootstrap administrator gives no role above a rank in a store, and
\* nobody holds one there.
GivesNoneAbove(s, p) ==
  \A u \in User, r \in Role : Priority[r] < p => ~Grant(Bootstrap, u, s, r)

NoneAbove(s, p) ==
  \A u \in User : role[u][s] \in Role => Priority[role[u][s]] >= p

\* A role that is new in a store was given or came of an invite.
LEMMA NewRole ==
  ASSUME TypeOK, Next, NEW u \in User, NEW s \in Store,
         role'[u][s] \in Role, role'[u][s] # role[u][s]
  PROVE  \/ role'[u][s] \in InviteRoles
         \/ \E actor \in User \cup {Bootstrap} : Grant(actor, u, s, role'[u][s])
<1>1. ASSUME NEW v \in User, NEW t \in Store, DropMembership(v, t) PROVE FALSE
  BY <1>1 DEF DropMembership, TypeOK
<1>2. PICK actor \in User \cup {Bootstrap} : ActorStep(actor) \/ Entry
  <2>1. ~\E v \in User : UserStep(v) \/ Authenticate(v) \/ Refuse(v)
    BY <1>1 DEF UserStep, EnsureSession, RevokeSelf, SelectStore, SelectDevice,
                Authenticate, Refuse
  <2>2. ~BootstrapStep
    BY DEF BootstrapStep, SetBan, CreateStore
  <2> QED BY <2>1, <2>2 DEF Next
<1>3. CASE Entry
  <2>1. PICK v \in User, t \in Store, r \in InviteRoles : Admit(v, t, r)
    BY <1>3 DEF Entry, RegisterDevice
  <2>2. role' = [role EXCEPT ![v][t] = r]
    BY <2>1 DEF Admit
  <2> QED BY <2>2 DEF TypeOK
<1>4. CASE ActorStep(actor)
  <2>1. PICK v \in User, t \in Store, r \in Role : Grant(actor, v, t, r)
    BY <1>1, <1>4 DEF ActorStep, UpdateStore, DecommissionDevice, Revoke
  <2>2. role' = [role EXCEPT ![v][t] = r]
    BY <2>1 DEF Grant
  <2>3. v = u /\ t = s /\ role'[u][s] = r
    BY <2>2 DEF TypeOK
  <2> QED BY <2>1, <2>3
<1> QED BY <1>2, <1>3, <1>4

(***************************************************************************)
(* Rank comes from above.  Invites offer low roles only                    *)
(* (staff_invite_policy.py:13) and a member gives only roles below its own *)
(* (Outranks), so as long as the bootstrap administrator gives no role     *)
(* above a rank in a store, no sequence of grants, invites and revocations *)
(* of its members, on whatever stale authority, raises anybody above it.   *)
(***************************************************************************)
THEOREM RanksComeFromAbove ==
  ASSUME NEW s \in Store, NEW p \in Nat, \A r \in InviteRoles : Priority[r] >= p
  PROVE  Init /\ [][Next /\ GivesNoneAbove(s, p)]_vars => []NoneAbove(s, p)
<1>1. Init => TypeOK /\ NoneAbove(s, p)
  BY DEF Init, TypeOK, NoneAbove
<1>2. ASSUME TypeOK, NoneAbove(s, p), Next, GivesNoneAbove(s, p)
      PROVE  NoneAbove(s, p)'
  <2> SUFFICES ASSUME NEW u \in User, role'[u][s] \in Role,
                      role'[u][s] # role[u][s]
               PROVE  Priority[role'[u][s]] >= p
    BY <1>2 DEF NoneAbove
  <2>1. CASE role'[u][s] \in InviteRoles
    BY <2>1
  <2>2. ASSUME NEW a \in User, Grant(a, u, s, role'[u][s])
        PROVE  Priority[role'[u][s]] >= p
    <3>1. role[a][s] \in Role /\ Priority[role[a][s]] < Priority[role'[u][s]]
      BY <2>2 DEF Grant, Outranks
    <3>2. Priority[role[a][s]] >= p
      BY <1>2, <3>1 DEF NoneAbove
    <3> QED BY <3>1, <3>2
  <2>3. CASE Grant(Bootstrap, u, s, role'[u][s])
    BY <1>2, <2>3 DEF GivesNoneAbove
  <2> QED BY <1>2, <2>1, <2>2, <2>3, NewRole
<1>3. TypeOK /\ NoneAbove(s, p) /\ UNCHANGED vars => NoneAbove(s, p)'
  BY DEF NoneAbove, vars
<1>4. TypeOK /\ NoneAbove(s, p) /\ [Next /\ GivesNoneAbove(s, p)]_vars
        => TypeOK' /\ NoneAbove(s, p)'
  BY <1>2, <1>3, TypeStep
<1> QED BY <1>1, <1>4, PTL
-----------------------------------------------------------------------------
\* What is issued is complete, and what is not has no code yet.
IssuedIsComplete ==
  \A i \in Invite :
    /\ i \in issued => offered[i] \in InviteRoles /\ code[i] \in Code
    /\ i \notin issued => code[i] = NoCode

\* Invites are numbered in the order of their creation.
IssuedInOrder ==
  \A i, j \in Invite : i \in issued /\ j < i => j \in issued

\* The counter that limits the uses counts every use.
UsesAreCounted == used = entered

CInv ==
  CodesTypeOK /\ IssuedIsComplete /\ IssuedInOrder /\ UsesAreCounted
  /\ CodeIsUnambiguous
-----------------------------------------------------------------------------
USE RegistryAssumption, NameAssumption, PassAssumption

\* The request of an actor who issues or revokes a pass is over; to Access
\* it was refused, or, of the bootstrap actor, nothing happened.
LEMMA PassRequest ==
  ASSUME TypeOK, NEW actor \in User \cup {Bootstrap}, NEW s,
         Passes(actor, s), Ends(actor),
         UNCHANGED <<people, shops, role, context, hardware>>
  PROVE  [Next]_vars
<1>1. CASE actor = Bootstrap
  <2>1. scope' = scope
    BY <1>1 DEF TypeOK, Ends
  <2> QED BY <2>1 DEF vars
<1>2. CASE actor # Bootstrap
  <2>1. actor \in User /\ scope[actor] # {}
    BY <1>2 DEF Passes
  <2>2. Refuse(actor)
    BY <2>1 DEF Refuse
  <2> QED BY <2>1, <2>2 DEF Next
<1> QED BY <1>1, <1>2

\* What the step of a pass does to Access is a step of Access.
LEMMA CodesStepIsAccessStep == CInv /\ [CodesNext]_codeVars => [Next]_vars
<1> SUFFICES ASSUME CInv, [CodesNext]_codeVars PROVE [Next]_vars
  OBVIOUS
<1>0. TypeOK
  BY DEF CInv, CodesTypeOK
<1>1. CASE UNCHANGED codeVars
  BY <1>1 DEF codeVars
<1>2. CASE IssueStep
  <2>1. ASSUME NEW u \in User, NEW i \in Invite, NEW n \in Limits,
               CreateBotInvite(u, i, n)
        PROVE  UNCHANGED vars
    BY <2>1 DEF CreateBotInvite
  <2>2. ASSUME NEW actor \in User \cup {Bootstrap}, NEW s \in Store,
               NEW i \in Invite, NEW n \in Limits, CreateInvite(actor, i, s, n)
        PROVE  [Next]_vars
    BY <1>0, <2>2, PassRequest DEF CreateInvite
  <2>3. ASSUME NEW actor \in User \cup {Bootstrap}, NEW s \in Store,
               NEW t \in Token, NEW n \in Limits, CreateToken(actor, t, s, n)
        PROVE  [Next]_vars
    BY <1>0, <2>3, PassRequest DEF CreateToken
  <2> QED BY <1>2, <2>1, <2>2, <2>3 DEF IssueStep
<1>3. CASE EndStep
  <2>1. ASSUME NEW p \in Pass, NEW actor \in User \cup {Bootstrap},
               RevokePass(actor, p)
        PROVE  [Next]_vars
    BY <1>0, <2>1, PassRequest DEF RevokePass
  <2>2. ASSUME NEW p \in Pass, Expire(p) PROVE UNCHANGED vars
    BY <2>2 DEF Expire
  <2> QED BY <1>3, <2>1, <2>2 DEF EndStep
<1>4. CASE UseStep
  <2>1. ASSUME NEW u \in User, NEW c \in Code, Redeem(u, c) PROVE Next
    <3>1. PICK i \in Invite : i \in issued /\ Admit(u, store[i], offered[i])
      BY <2>1 DEF Redeem, Redeemable
    <3>2. store[i] \in Store
      BY <1>0, <3>1 DEF TypeOK, Admit
    <3>3. offered[i] \in InviteRoles
      BY <3>1 DEF CInv, IssuedIsComplete
    <3> QED BY <3>1, <3>2, <3>3 DEF Next, Entry
  <2>2. ASSUME NEW d \in Device, NEW t \in Token, Register(d, t) PROVE Next
    <3>1. RegisterDevice(d, store[t])
      BY <2>2 DEF Register
    <3>2. store[t] \in Store
      BY <1>0, <3>1 DEF TypeOK, RegisterDevice
    <3> QED BY <3>1, <3>2 DEF Next, Entry
  <2> QED BY <1>4, <2>1, <2>2 DEF UseStep
<1>5. CASE AccessStep
  BY <1>5 DEF AccessStep, Next
<1> QED BY <1>1, <1>2, <1>3, <1>4, <1>5 DEF CodesNext
-----------------------------------------------------------------------------
\* What the rows of passes can do in a step: one is issued, one ends, one is
\* used, or nothing happens to them.
IssuesInvite(i, n) == \E s \in Store : IssueInvite(i, s, n)

IssuesToken(t, n) ==
  \E s \in Store : Issue(t, s, n) /\ UNCHANGED <<code, offered>>

EndsPass(p) ==
  /\ p \in issued \ ended
  /\ ended' = ended \cup {p}
  /\ UNCHANGED <<issued, store, limit, used, code, offered, entered>>

UsesPass(p) ==
  /\ p \in issued \ ended
  /\ ~Exhausted(p)
  /\ CountUse(p)
  /\ UNCHANGED <<issued, ended, store, limit, code, offered>>

LEMMA PassSteps ==
  ASSUME CInv, [CodesNext]_codeVars
  PROVE  \/ \E i \in Invite, n \in Limits : IssuesInvite(i, n)
         \/ \E t \in Token, n \in Limits : IssuesToken(t, n)
         \/ \E p \in Pass : EndsPass(p) \/ UsesPass(p)
         \/ UNCHANGED passes
<1>1. CASE UNCHANGED codeVars
  BY <1>1 DEF codeVars
<1>2. CASE IssueStep
  <2>1. ASSUME NEW u \in User, NEW i \in Invite, NEW n \in Limits,
               CreateBotInvite(u, i, n)
        PROVE  IssuesInvite(i, n)
    <3>1. EffectiveStore(u) \in Store
      BY <2>1, EffectiveType DEF CreateBotInvite, CInv, CodesTypeOK
    <3> QED BY <2>1, <3>1 DEF CreateBotInvite, IssuesInvite
  <2>2. ASSUME NEW actor \in User \cup {Bootstrap}, NEW s \in Store,
               NEW i \in Invite, NEW n \in Limits, CreateInvite(actor, i, s, n)
        PROVE  IssuesInvite(i, n)
    BY <2>2 DEF CreateInvite, IssuesInvite
  <2>3. ASSUME NEW actor \in User \cup {Bootstrap}, NEW s \in Store,
               NEW t \in Token, NEW n \in Limits, CreateToken(actor, t, s, n)
        PROVE  IssuesToken(t, n)
    BY <2>3 DEF CreateToken, IssuesToken
  <2> QED BY <1>2, <2>1, <2>2, <2>3 DEF IssueStep
<1>3. CASE EndStep
  <2>1. ASSUME NEW p \in Pass, NEW actor \in User \cup {Bootstrap},
               RevokePass(actor, p)
        PROVE  EndsPass(p)
    BY <2>1 DEF RevokePass, EndsPass
  <2>2. ASSUME NEW p \in Pass, Expire(p) PROVE EndsPass(p)
    BY <2>2 DEF Expire, EndsPass
  <2> QED BY <1>3, <2>1, <2>2 DEF EndStep
<1>4. CASE UseStep
  <2>1. ASSUME NEW u \in User, NEW c \in Code, Redeem(u, c)
        PROVE  UNCHANGED passes \/ \E p \in Pass : UsesPass(p)
    <3>1. PICK i \in Invite :
            /\ Redeemable(i)
            /\ UNCHANGED <<used, entered>> \/ CountUse(i)
            /\ UNCHANGED <<issued, ended, store, limit, code, offered>>
      BY <2>1 DEF Redeem
    <3> QED BY <3>1 DEF Redeemable, UsesPass, passes, Pass
  <2>2. ASSUME NEW d \in Device, NEW t \in Token, Register(d, t) PROVE UsesPass(t)
    BY <2>2 DEF Register, UsesPass
  <2> QED BY <1>4, <2>1, <2>2 DEF UseStep, Pass
<1>5. CASE AccessStep
  BY <1>5 DEF AccessStep
<1> QED BY <1>1, <1>2, <1>3, <1>4, <1>5 DEF CodesNext
-----------------------------------------------------------------------------
LEMMA IssueInviteStep ==
  ASSUME CInv, NEW i \in Invite, NEW n \in Limits, IssuesInvite(i, n), TypeOK'
  PROVE  CInv'
<1> USE DEF CInv, CodesTypeOK, Invite, Pass, Limits
<1>1. PICK s \in Store : IssueInvite(i, s, n)
  BY DEF IssuesInvite
<1>2. PICK c \in Code : Free(c) /\ code' = [code EXCEPT ![i] = c]
  BY <1>1 DEF IssueInvite
<1>3. PICK r \in InviteRoles : offered' = [offered EXCEPT ![i] = r]
  BY <1>1 DEF IssueInvite
<1>4. /\ i \notin issued
      /\ issued' = issued \cup {i}
      /\ store' = [store EXCEPT ![i] = s]
      /\ limit' = [limit EXCEPT ![i] = n]
      /\ ended' = ended /\ used' = used /\ entered' = entered
      /\ \A j \in Invite : j < i => j \in issued
  BY <1>1 DEF IssueInvite, Issue
<1>5. CodesTypeOK'
  BY <1>2, <1>3, <1>4
<1>6. IssuedIsComplete'
  BY <1>2, <1>3, <1>4 DEF IssuedIsComplete
<1>7. IssuedInOrder'
  BY <1>4 DEF IssuedInOrder
<1>8. CodeIsUnambiguous'
  <2>1. \A j \in Invite \ {i} : Redeemable(j)' <=> Redeemable(j)
    BY <1>4 DEF Redeemable, Exhausted
  <2>2. \A j \in Invite \ {i} : code[j] = c => ~Redeemable(j) /\ j < i
    BY <1>2, <1>4 DEF Free, IssuedIsComplete, IssuedInOrder
  <2>3. \A j \in Invite \ {i} : code'[j] = code[j]
    BY <1>2
  <2>4. code'[i] = c
    BY <1>2
  <2> QED BY <2>1, <2>2, <2>3, <2>4 DEF CodeIsUnambiguous
<1> QED BY <1>4, <1>5, <1>6, <1>7, <1>8 DEF UsesAreCounted

LEMMA IssueTokenStep ==
  ASSUME CInv, NEW t \in Token, NEW n \in Limits, IssuesToken(t, n), TypeOK'
  PROVE  CInv'
<1> USE DEF CInv, CodesTypeOK, Pass, Limits
<1>1. PICK s \in Store : Issue(t, s, n) /\ UNCHANGED <<code, offered>>
  BY DEF IssuesToken
<1>2. t \notin Invite
  OBVIOUS
<1>3. CodesTypeOK'
  BY <1>1 DEF Issue
<1>4. IssuedIsComplete' /\ IssuedInOrder' /\ UsesAreCounted'
  BY <1>1, <1>2 DEF Issue, IssuedIsComplete, IssuedInOrder, UsesAreCounted
<1>5. \A i \in Invite : Redeemable(i)' <=> Redeemable(i)
  BY <1>1, <1>2 DEF Issue, Redeemable, Exhausted
<1> QED BY <1>1, <1>3, <1>4, <1>5 DEF CodeIsUnambiguous

\* Ends and uses make no pass redeemable again.
LEMMA EndOrUseStep ==
  ASSUME CInv, NEW p \in Pass, EndsPass(p) \/ UsesPass(p), TypeOK'
  PROVE  CInv'
<1> USE DEF CInv, CodesTypeOK, Pass
<1>1. UNCHANGED <<issued, store, limit, code, offered>>
  BY DEF EndsPass, UsesPass
<1>2. /\ ended' \in SUBSET issued
      /\ ended \subseteq ended'
      /\ used' \in [Pass -> Nat]
      /\ entered' = used'
      /\ \A q \in Pass : used[q] <= used'[q]
  <2>1. CASE EndsPass(p)
    BY <2>1 DEF EndsPass, UsesAreCounted
  <2>2. CASE UsesPass(p)
    <3>1. used' = [used EXCEPT ![p] = @ + 1] /\ entered' = used' /\ ended' = ended
      BY <2>2 DEF UsesPass, CountUse, UsesAreCounted
    <3> QED BY <3>1
  <2> QED BY <2>1, <2>2
<1>3. CodesTypeOK' /\ UsesAreCounted'
  BY <1>1, <1>2 DEF UsesAreCounted
<1>4. IssuedIsComplete' /\ IssuedInOrder'
  BY <1>1 DEF IssuedIsComplete, IssuedInOrder
<1>5. \A i \in Invite : Redeemable(i)' => Redeemable(i)
  BY <1>1, <1>2 DEF Redeemable, Exhausted
<1> QED BY <1>1, <1>3, <1>4, <1>5 DEF CodeIsUnambiguous

LEMMA CInvStep == CInv /\ [CodesNext]_codeVars => CInv'
<1> SUFFICES ASSUME CInv, [CodesNext]_codeVars PROVE CInv'
  OBVIOUS
<1>1. TypeOK'
  BY CodesStepIsAccessStep, TypeStep DEF CInv, CodesTypeOK
<1>2. ASSUME UNCHANGED passes PROVE CInv'
  BY <1>1, <1>2 DEF passes, CInv, CodesTypeOK, IssuedIsComplete, IssuedInOrder,
                    UsesAreCounted, CodeIsUnambiguous, Redeemable, Exhausted
<1> QED BY <1>1, <1>2, PassSteps, IssueInviteStep, IssueTokenStep, EndOrUseStep

LEMMA CInvInit == CodesInit => CInv
<1> SUFFICES ASSUME CodesInit PROVE CInv
  OBVIOUS
<1>1. TypeOK
  BY DEF CodesInit, Init, TypeOK
<1> QED BY <1>1 DEF CodesInit, CInv, CodesTypeOK, IssuedIsComplete, IssuedInOrder,
                    UsesAreCounted, CodeIsUnambiguous, Redeemable, NoLimit

LEMMA CodesInvariance == CodesSpec => []CInv
  BY CInvInit, CInvStep, PTL DEF CodesSpec

(***************************************************************************)
(* Every reachable state of access, invites and tokens is well typed; an   *)
(* invite never offers a role outside the list of invitable ones.          *)
(***************************************************************************)
THEOREM CodesTypeCorrect == CodesSpec => []CodesTypeOK
<1>1. CInv => CodesTypeOK
  BY DEF CInv
<1> QED BY <1>1, CodesInvariance, PTL

(***************************************************************************)
(* However codes are drawn again, one that can be redeemed names one       *)
(* invite and finds it.                                                    *)
(***************************************************************************)
THEOREM CodesAreUnambiguous == CodesSpec => []CodeIsUnambiguous
<1>1. CInv => CodeIsUnambiguous
  BY DEF CInv
<1> QED BY <1>1, CodesInvariance, PTL

(***************************************************************************)
(* Invites and tokens bring about only what Access lets its Entry do, so   *)
(* that every theorem about Access holds with them.                        *)
(***************************************************************************)
THEOREM CodesKeepAccess == CodesSpec => Spec
<1>1. CodesInit => Init
  BY DEF CodesInit
<1> QED BY <1>1, CodesStepIsAccessStep, CodesInvariance, PTL DEF CodesSpec, Spec

(***************************************************************************)
(* Neither does it issue or revoke a pass of another store, or use one.    *)
(***************************************************************************)
THEOREM PassesStayApart == CodesSpec => PassesAreApart
<1>1. ASSUME CInv, [CodesNext]_codeVars, NEW a \in User, scope[a] # {}, scope'[a] = {}
      PROVE  /\ used' = used /\ entered' = entered
             /\ \A p \in issued' \ issued : store'[p] \in scope[a]
             /\ \A p \in ended' \ ended : store[p] \in scope[a]
  <2> DEFINE Apart == /\ used' = used /\ entered' = entered
                      /\ \A p \in issued' \ issued : store'[p] \in scope[a]
                      /\ \A p \in ended' \ ended : store[p] \in scope[a]
  <2>1. TypeOK
    BY <1>1 DEF CInv, CodesTypeOK
  <2>2. ASSUME NEW actor \in User \cup {Bootstrap}, NEW s \in Store, NEW n \in Limits,
               \/ \E i \in Invite : CreateInvite(actor, i, s, n)
               \/ \E t \in Token : CreateToken(actor, t, s, n)
        PROVE  Apart
    <3>1. Ends(actor) /\ Passes(actor, s) /\ \E p \in Pass : Issue(p, s, n)
      BY <2>2 DEF CreateInvite, CreateToken, IssueInvite, Pass
    <3>2. s \in scope[a]
      BY <1>1, <2>1, <3>1, EndsOwnRequest, NameAssumption DEF Passes
    <3> QED BY <1>1, <3>1, <3>2 DEF Issue, CInv, CodesTypeOK
  <2>3. ASSUME NEW p \in Pass, NEW actor \in User \cup {Bootstrap}, RevokePass(actor, p)
        PROVE  Apart
    <3>1. store[p] \in scope[a]
      BY <1>1, <2>1, <2>3, EndsOwnRequest, NameAssumption DEF RevokePass, Passes
    <3> QED BY <2>3, <3>1 DEF RevokePass
  <2>4. ASSUME UNCHANGED scope PROVE FALSE
    BY <1>1, <2>4
  <2>5. CASE AccessStep \/ UNCHANGED codeVars
    BY <2>5 DEF AccessStep, codeVars, passes
  <2>6. CASE IssueStep
    BY <2>2, <2>4, <2>6 DEF IssueStep, CreateBotInvite, vars
  <2>7. CASE EndStep
    BY <2>3, <2>4, <2>7 DEF EndStep, Expire, vars
  <2>8. CASE UseStep
    BY <2>4, <2>8 DEF UseStep, Redeem, Register, Admit, RegisterDevice
  <2> QED BY <1>1, <2>5, <2>6, <2>7, <2>8 DEF CodesNext
<1>2. CInv /\ [CodesNext]_codeVars =>
        \A a \in User : scope[a] # {} /\ scope'[a] = {} =>
          /\ used' = used /\ entered' = entered
          /\ \A p \in issued' \ issued : store'[p] \in scope[a]
          /\ \A p \in ended' \ ended : store[p] \in scope[a]
  BY <1>1
<1> QED BY <1>2, CodesInvariance, PTL DEF CodesSpec, PassesAreApart
-----------------------------------------------------------------------------
\* The abstract stages, whatever the spelling of the mapping.
Stage == [p \in Pass |-> StageOf(p)]

LEMMA IssueKeepsLimits ==
  ASSUME CInv, NEW p \in Pass, NEW s \in Store, NEW n \in Limits, Issue(p, s, n)
  PROVE  Promise!Next
<1>1. /\ p \notin issued
      /\ issued' = issued \cup {p}
      /\ limit' = [limit EXCEPT ![p] = n]
      /\ ended' = ended /\ entered' = entered
  BY DEF Issue
<1>2. p \notin ended /\ Stage[p] = "none"
  BY <1>1 DEF CInv, CodesTypeOK, Stage, StageOf
<1>3. Stage' = [Stage EXCEPT ![p] = "valid"]
  BY <1>1, <1>2 DEF Stage, StageOf
<1>4. limit'[p] = n /\ n \in Nat
  BY <1>1 DEF CInv, CodesTypeOK, Limits
<1>5. Promise!Issue(p)
  BY <1>1, <1>2, <1>3, <1>4 DEF Promise!Issue, Stage
<1> QED BY <1>5 DEF Promise!Next

LEMMA EndKeepsLimits ==
  ASSUME CInv, NEW p \in Pass, EndsPass(p)
  PROVE  Promise!Next
<1>1. Stage[p] = "valid" /\ Stage' = [Stage EXCEPT ![p] = "ended"]
  BY DEF EndsPass, Stage, StageOf
<1>2. Promise!End(p)
  BY <1>1 DEF Promise!End, EndsPass, Stage
<1> QED BY <1>2 DEF Promise!Next

LEMMA UseKeepsLimits ==
  ASSUME CInv, NEW p \in Pass, UsesPass(p)
  PROVE  Promise!Next
<1>1. Stage[p] = "valid" /\ Stage' = Stage
  BY DEF UsesPass, Stage, StageOf
<1>2. limit[p] # 0 => entered[p] < limit[p]
  BY DEF UsesPass, Exhausted, NoLimit, CInv, CodesTypeOK, UsesAreCounted
<1>3. entered' = [entered EXCEPT ![p] = @ + 1] /\ UNCHANGED limit
  BY DEF UsesPass, CountUse
<1>4. Promise!Enter(p)
  BY <1>1, <1>2, <1>3 DEF Promise!Enter, Stage
<1> QED BY <1>4 DEF Promise!Next

(***************************************************************************)
(* Invites and tokens implement LimitedUse: for any number of them, any    *)
(* limit and any interleaving, each lets in what its limit says, and       *)
(* nobody after its end.                                                   *)
(***************************************************************************)
THEOREM PassesKeepLimits == CodesSpec => KeepsLimits
<1>1. CodesInit => Promise!Init
  BY DEF CodesInit, Promise!Init, StageOf, NoLimit
<1>2. CInv /\ [CodesNext]_codeVars => [Promise!Next]_(Promise!state)
  <2> SUFFICES ASSUME CInv, [CodesNext]_codeVars
               PROVE  [Promise!Next]_(Promise!state)
    OBVIOUS
  <2>1. ASSUME NEW i \in Invite, NEW n \in Limits, IssuesInvite(i, n)
        PROVE  Promise!Next
    BY <2>1, IssueKeepsLimits DEF IssuesInvite, IssueInvite, Pass
  <2>2. ASSUME NEW t \in Token, NEW n \in Limits, IssuesToken(t, n)
        PROVE  Promise!Next
    BY <2>2, IssueKeepsLimits DEF IssuesToken, Pass
  <2>3. ASSUME NEW p \in Pass, EndsPass(p) \/ UsesPass(p) PROVE Promise!Next
    BY <2>3, EndKeepsLimits, UseKeepsLimits
  <2>4. ASSUME UNCHANGED passes PROVE UNCHANGED Promise!state
    BY <2>4 DEF passes, Promise!state, StageOf
  <2> QED BY <2>1, <2>2, <2>3, <2>4, PassSteps
<1> QED BY <1>1, <1>2, CodesInvariance, PTL DEF CodesSpec, KeepsLimits, Promise!Spec
=============================================================================
