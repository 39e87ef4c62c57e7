----------------------------- MODULE AccessCodes -----------------------------
(***************************************************************************)
(* What lets people and devices in: staff invites, whose six digit codes   *)
(* users redeem for a membership, and enroll tokens, with which connectors *)
(* register.  Both belong to a store, are used a limited number of times,  *)
(* expire and are revoked; both are called passes here.  Composed with     *)
(* Access, whose memberships and devices they bring about.                 *)
(*                                                                         *)
(* Invites are numbered in the order they are created (created_at DESC,    *)
(* invite_id DESC finds the greatest number).  A code is free again when   *)
(* no invite can be redeemed by it any more.                               *)
(***************************************************************************)
EXTENDS Access

CONSTANTS
  MaxInvites,  \* bound: staff invites ever created
  Token,       \* enroll tokens
  Code,        \* the invite codes that are ever drawn
  MaxLimit,    \* bound: max_uses
  MaxEntries   \* bound: uses of an invite without a limit

Invite == 1 .. MaxInvites
Pass == Invite \cup Token

NoCode == "no code"
NoLimit == 0

ASSUME PassAssumption ==
  /\ MaxInvites \in Nat
  /\ Token \cap Invite = {}
  /\ NoCode \notin Code
  /\ MaxLimit \in Nat
  /\ MaxEntries \in Nat

VARIABLES
  issued,   \* SUBSET Pass: rows of staff_invites and enroll_tokens
  ended,    \* SUBSET Pass: those revoked or past their expires_at
  store,    \* [Pass -> Store or NoStore]: store_id
  limit,    \* [Pass -> Nat]: max_uses, NoLimit for NULL
  used,     \* [Pass -> Nat]: used_count, uses
  code,     \* [Invite -> Code or NoCode]: code_hash
  offered,  \* [Invite -> Role or NoRole]: role
  \* History, for the properties.
  entered   \* [Pass -> Nat]: memberships and devices it brought about

passes == <<issued, ended, store, limit, used, code, offered, entered>>
codeVars == <<vars, passes>>

CodesInit ==
  /\ Init
  /\ issued = {}
  /\ ended = {}
  /\ store = [p \in Pass |-> NoStore]
  /\ limit = [p \in Pass |-> NoLimit]
  /\ used = [p \in Pass |-> 0]
  /\ code = [i \in Invite |-> NoCode]
  /\ offered = [i \in Invite |-> NoRole]
  /\ entered = [p \in Pass |-> 0]
-----------------------------------------------------------------------------
Exhausted(p) == limit[p] # NoLimit /\ used[p] >= limit[p]

Redeemable(i) == i \in issued \ ended /\ ~Exhausted(i)

\* Faulty variant: an invite without a limit counts as used up.
FreeUnlessCounted(c) ==
  \A i \in Invite : code[i] = c =>
    i \in ended \/ used[i] >= limit[i]

\* A code is drawn only if no invite can be redeemed by it.
Free(c) == \A i \in Invite : code[i] = c => ~Redeemable(i)

\* The invite a code names: the newest.
Names(c, i) ==
  /\ code[i] = c
  /\ \A j \in Invite : code[j] = c => j <= i

Issue(p, s, n) ==
  /\ p \notin issued
  /\ issued' = issued \cup {p}
  /\ store' = [store EXCEPT ![p] = s]
  /\ limit' = [limit EXCEPT ![p] = n]
  /\ UNCHANGED <<ended, used, entered>>

IssueInvite(i, s, n) ==
  /\ \A j \in Invite : j < i => j \in issued
  /\ Issue(i, s, n)
  /\ \E c \in Code : Free(c) /\ code' = [code EXCEPT ![i] = c]
  /\ \E r \in InviteRoles : offered' = [offered EXCEPT ![i] = r]

\* A member with an administrative role invites into the active store.
CreateBotInvite(u, i, n) ==
  /\ n # NoLimit
  /\ u \in known \ banned
  /\ EffectiveStore(u) # NoStore
  /\ role[u][EffectiveStore(u)] \in AdminRoles
  /\ IssueInvite(i, EffectiveStore(u), n)
  /\ UNCHANGED vars

\* An administrator invites, by the authority the request came with.  Whether
\* the store is open is read before the transaction; that it is closed in
\* between comes to the same as that it is closed after it.
CreateInvite(actor, i, s, n) ==
  /\ Passes(actor, s)
  /\ s \in open
  /\ IssueInvite(i, s, n)
  /\ Ends(actor)
  /\ UNCHANGED <<people, shops, role, context, hardware>>

CreateToken(actor, t, s, n) ==
  /\ n # NoLimit
  /\ Passes(actor, s)
  /\ s \in open
  /\ Issue(t, s, n)
  /\ Ends(actor)
  /\ UNCHANGED <<people, shops, role, context, hardware, code, offered>>

\* revoked_at is set once, and not taken back.
RevokePass(actor, p) ==
  /\ p \in issued \ ended
  /\ Passes(actor, store[p])
  /\ ended' = ended \cup {p}
  /\ Ends(actor)
  /\ UNCHANGED <<people, shops, role, context, hardware, issued, store, limit,
                 used, code, offered, entered>>

\* expires_at passes.
Expire(p) ==
  /\ p \in issued \ ended
  /\ ended' = ended \cup {p}
  /\ UNCHANGED <<vars, issued, store, limit, used, code, offered, entered>>
-----------------------------------------------------------------------------
\* UPDATE ... SET used = used + 1 WHERE it is below the limit.
CountUse(p) ==
  /\ limit[p] = NoLimit => used[p] < MaxEntries
  /\ used' = IF Exhausted(p) THEN used ELSE [used EXCEPT ![p] = @ + 1]
  /\ entered' = [entered EXCEPT ![p] = @ + 1]

\* Faulty variant: whether the invite is used up is left to the UPDATE.
RedeemUnlessEnded(u, c) ==
  \E i \in Invite :
    /\ Names(c, i)
    /\ i \in issued \ ended
    /\ Admit(u, store[i], offered[i])
    /\ IF Member(u, store[i]) THEN UNCHANGED <<used, entered>>
                              ELSE CountUse(i)
    /\ UNCHANGED <<issued, ended, store, limit, code, offered>>

\* Who is a member already is let in again without a use.
Redeem(u, c) ==
  \E i \in Invite :
    /\ Names(c, i)
    /\ Redeemable(i)
    /\ Admit(u, store[i], offered[i])
    /\ IF Member(u, store[i]) THEN UNCHANGED <<used, entered>>
                              ELSE CountUse(i)
    /\ UNCHANGED <<issued, ended, store, limit, code, offered>>

Register(d, t) ==
  /\ t \in issued \ ended
  /\ ~Exhausted(t)
  /\ CountUse(t)
  /\ RegisterDevice(d, store[t])
  /\ UNCHANGED <<issued, ended, store, limit, code, offered>>
-----------------------------------------------------------------------------
Limits == 0 .. MaxLimit

IssueStep ==
  \/ \E i \in Invite, n \in Limits :
       \/ \E u \in User : CreateBotInvite(u, i, n)
       \/ \E actor \in User \cup {Bootstrap}, s \in Store :
            CreateInvite(actor, i, s, n)
  \/ \E t \in Token, n \in Limits, actor \in User \cup {Bootstrap}, s \in Store :
       CreateToken(actor, t, s, n)

EndStep ==
  \E p \in Pass :
    Expire(p) \/ \E actor \in User \cup {Bootstrap} : RevokePass(actor, p)

UseStep ==
  \/ \E u \in User, c \in Code : Redeem(u, c)
  \/ \E d \in Device, t \in Token : Register(d, t)

AccessStep ==
  /\ \/ \E u \in User : UserStep(u) \/ Authenticate(u) \/ Refuse(u)
     \/ \E actor \in User \cup {Bootstrap} : ActorStep(actor)
     \/ BootstrapStep
  /\ UNCHANGED passes

CodesNext == IssueStep \/ EndStep \/ UseStep \/ AccessStep

CodesSpec == CodesInit /\ [][CodesNext]_codeVars
-----------------------------------------------------------------------------
CodesTypeOK ==
  /\ TypeOK
  /\ issued \in SUBSET Pass
  /\ ended \in SUBSET issued
  /\ store \in [Pass -> Store \cup {NoStore}]
  /\ limit \in [Pass -> Nat]
  /\ used \in [Pass -> Nat]
  /\ code \in [Invite -> Code \cup {NoCode}]
  /\ offered \in [Invite -> InviteRoles \cup {NoRole}]
  /\ entered \in [Pass -> Nat]

(***************************************************************************)
(* A code that can be redeemed names one invite, the one it was handed out *)
(* for: however codes are drawn again as invites end or are used up, no    *)
(* other invite of the code can be redeemed or hides it                    *)
(* (generate_unique_staff_invite_code, _select_invite_row_by_code_hash).   *)
(***************************************************************************)
CodeIsUnambiguous ==
  \A i, j \in Invite :
    i # j /\ code[i] = code[j] /\ Redeemable(i) => ~Redeemable(j) /\ j < i

(***************************************************************************)
(* Invites and tokens keep what they promise: each lets in as many members *)
(* or devices as its limit says, none after it was revoked or expired, and *)
(* a use is neither lost nor refunded when members leave and come back.    *)
(***************************************************************************)
StageOf(p) == IF p \notin issued THEN "none"
              ELSE IF p \in ended THEN "ended" ELSE "valid"

Promise == INSTANCE LimitedUse WITH stage <- [p \in Pass |-> StageOf(p)]

KeepsLimits == Promise!Spec

(***************************************************************************)
(* The passes of stores are kept apart too: the request of a member issues *)
(* and revokes passes of stores that it administered when it was           *)
(* authenticated, and touches no other pass.                               *)
(***************************************************************************)
PassesAreApart ==
  [][\A a \in User : scope[a] # {} /\ scope'[a] = {} =>
       /\ used' = used /\ entered' = entered
       /\ \A p \in issued' \ issued : store'[p] \in scope[a]
       /\ \A p \in ended' \ ended : store[p] \in scope[a]]_codeVars
=============================================================================
