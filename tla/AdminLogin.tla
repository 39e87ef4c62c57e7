----------------------------- MODULE AdminLogin -----------------------------
(***************************************************************************)
(* How an administrator comes to a browser session.  A browser starts a    *)
(* challenge; a user claims it in Telegram and is given a link with a      *)
(* completion token; the browser that opens the link is logged in as that  *)
(* user.  The bootstrap account logs in with its password.                 *)
(*                                                                         *)
(* A claim has two steps, because the handler checks the user and the      *)
(* challenge before its transaction; several claims may be between the     *)
(* two.  A session is a signed cookie and so state of the browser.         *)
(***************************************************************************)
EXTENDS Naturals

CONSTANTS
  User, Browser, Challenge,
  Bootstrap   \* the session of the bootstrap account

NoUser == "no user"

ASSUME LoginAssumption == NoUser \notin User /\ Bootstrap \notin User

VARIABLES
  admins,    \* SUBSET User: linked, not banned, with an administrative role
  status,    \* [Challenge -> Statuses]
  claimant,  \* [Challenge -> User or NoUser]: claimed_user_id
  expired,   \* SUBSET Challenge: past their expires_at
  claiming,  \* claims between check and transaction
  tokens,    \* rows of completion tokens, with the user each was given to
  used,      \* SUBSET tokens: used_at is set
  lapsed,    \* SUBSET tokens: past their expires_at
  session,   \* [Browser -> User, Bootstrap or NoUser]
  \* History, for the properties.
  logins     \* [Challenge -> Nat]: logins it brought about

challenges == <<status, claimant, expired>>
links == <<tokens, used, lapsed>>
vars == <<admins, challenges, claiming, links, session, logins>>

Claim == Challenge \X User

Init ==
  /\ admins = {}
  /\ status = [c \in Challenge |-> "none"]
  /\ claimant = [c \in Challenge |-> NoUser]
  /\ expired = {}
  /\ claiming = {}
  /\ tokens = {}
  /\ used = {}
  /\ lapsed = {}
  /\ session = [b \in Browser |-> NoUser]
  /\ logins = [c \in Challenge |-> 0]
-----------------------------------------------------------------------------
\* Memberships, roles and bans change at any time (Access).
AuthorityChanges(u) ==
  /\ admins' \in {admins \cup {u}, admins \ {u}}
  /\ UNCHANGED <<challenges, claiming, links, session, logins>>

StartChallenge(c) ==
  /\ status[c] = "none"
  /\ status' = [status EXCEPT ![c] = "pending"]
  /\ UNCHANGED <<admins, claimant, expired, claiming, links, session, logins>>

ExpireChallenge(c) ==
  /\ status[c] # "none"
  /\ expired' = expired \cup {c}
  /\ UNCHANGED <<admins, status, claimant, claiming, links, session, logins>>

CheckClaim(c, u) ==
  /\ u \in admins
  /\ status[c] = "pending"
  /\ c \notin expired
  /\ claiming' = claiming \cup {<<c, u>>}
  /\ UNCHANGED <<admins, challenges, links, session, logins>>

\* Faulty variant: nothing keeps a challenge from having two tokens.
FinishClaimTwice(c, u) ==
  /\ <<c, u>> \in claiming
  /\ claiming' = claiming \ {<<c, u>>}
  /\ IF status[c] # "pending" THEN UNCHANGED <<status, claimant>>
     ELSE /\ status' = [status EXCEPT ![c] = "claimed"]
          /\ claimant' = [claimant EXCEPT ![c] = u]
  /\ tokens' = tokens \cup {<<c, u>>}
  /\ UNCHANGED <<admins, expired, used, lapsed, session, logins>>

\* The transaction of a claim.  Its UPDATE finds the challenge pending or
\* changes nothing; it is the uniqueness of challenge_id among the tokens that
\* makes the INSERT fail and rolls a second claim back.
FinishClaim(c, u) ==
  /\ <<c, u>> \in claiming
  /\ claiming' = claiming \ {<<c, u>>}
  /\ \/ /\ \E v \in User : <<c, v>> \in tokens
        /\ UNCHANGED <<status, claimant, tokens>>
     \/ /\ \A v \in User : <<c, v>> \notin tokens
        /\ IF status[c] # "pending" THEN UNCHANGED <<status, claimant>>
           ELSE /\ status' = [status EXCEPT ![c] = "claimed"]
                /\ claimant' = [claimant EXCEPT ![c] = u]
        /\ tokens' = tokens \cup {<<c, u>>}
  /\ UNCHANGED <<admins, expired, used, lapsed, session, logins>>

ExpireToken(t) ==
  /\ t \in tokens \ lapsed
  /\ lapsed' = lapsed \cup {t}
  /\ UNCHANGED <<admins, challenges, claiming, tokens, used, session, logins>>
-----------------------------------------------------------------------------
\* Faulty variant: used_at is looked at, expires_at is not.
IsGoodForEver(c, u) ==
  /\ <<c, u>> \in tokens \ used
  /\ status[c] = "claimed"

IsGood(c, u) ==
  /\ <<c, u>> \in tokens \ (used \cup lapsed)
  /\ status[c] = "claimed"

\* Faulty variant: the authority at the claim is relied on.
ConsumeAsClaimed(c, u, b) ==
  /\ IsGood(c, u)
  /\ used' = used \cup {<<c, u>>}
  /\ status' = [status EXCEPT ![c] = "completed"]
  /\ logins' = [logins EXCEPT ![c] = @ + 1]
  /\ session' \in {session, [session EXCEPT ![b] = claimant[c]]}
  /\ UNCHANGED <<admins, claimant, expired, claiming, tokens, lapsed>>

\* A browser opens the link that was given to u.  The answer may be lost.
Consume(c, u, b) ==
  /\ IsGood(c, u)
  /\ claimant[c] \in admins
  /\ used' = used \cup {<<c, u>>}
  /\ status' = [status EXCEPT ![c] = "completed"]
  /\ logins' = [logins EXCEPT ![c] = @ + 1]
  /\ session' \in {session, [session EXCEPT ![b] = claimant[c]]}
  /\ UNCHANGED <<admins, claimant, expired, claiming, tokens, lapsed>>

\* The password is right.
LoginBootstrap(b) ==
  /\ session' = [session EXCEPT ![b] = Bootstrap]
  /\ UNCHANGED <<admins, challenges, claiming, links, logins>>

Logout(b) ==
  /\ session' = [session EXCEPT ![b] = NoUser]
  /\ UNCHANGED <<admins, challenges, claiming, links, logins>>

ClaimStep(c, u) == CheckClaim(c, u) \/ FinishClaim(c, u) \/ ExpireToken(<<c, u>>)

Next ==
  \/ \E u \in User : AuthorityChanges(u)
  \/ \E c \in Challenge : StartChallenge(c) \/ ExpireChallenge(c)
  \/ \E c \in Challenge, u \in User :
       ClaimStep(c, u) \/ \E b \in Browser : Consume(c, u, b)
  \/ \E b \in Browser : LoginBootstrap(b) \/ Logout(b)

Spec == Init /\ [][Next]_vars
-----------------------------------------------------------------------------
Claimed == {"claimed", "completed"}
Statuses == {"none", "pending"} \cup Claimed

TypeOK ==
  /\ admins \in SUBSET User
  /\ status \in [Challenge -> Statuses]
  /\ claimant \in [Challenge -> User \cup {NoUser}]
  /\ \A c \in Challenge : status[c] \in Claimed <=> claimant[c] \in User
  /\ expired \in SUBSET Challenge
  /\ claiming \in SUBSET Claim
  /\ tokens \in SUBSET Claim
  /\ used \in SUBSET tokens
  /\ lapsed \in SUBSET tokens
  /\ session \in [Browser -> User \cup {Bootstrap, NoUser}]
  /\ logins \in [Challenge -> Nat]

(***************************************************************************)
(* Whoever a browser is logged in as has claimed a challenge, was given    *)
(* the very link that was opened, and nobody else was given one: however   *)
(* claims of one challenge race, no link logs in as somebody else and none *)
(* is left over (claim_browser_login_challenge, consume_browser_login_     *)
(* token).                                                                 *)
(***************************************************************************)
Given(c) == {u \in User : <<c, u>> \in tokens}

SessionIsEarned ==
  \A b \in Browser : session[b] \in User =>
    \E c \in Challenge :
      /\ status[c] = "completed"
      /\ Given(c) = {session[b]}
      /\ <<c, session[b]>> \in used

(***************************************************************************)
(* Nobody is logged in who is banned or has lost the administrative role   *)
(* by then, also if the claim was made before.                             *)
(***************************************************************************)
LoginNeedsAuthority ==
  [][\A b \in Browser :
       session'[b] \in User /\ session'[b] # session[b] => session'[b] \in admins]_vars

(***************************************************************************)
(* A challenge is good for one login, and for none once its link lapsed.   *)
(***************************************************************************)
StageOf(c) == IF status[c] = "none" THEN "none"
              ELSE IF \E u \in User : <<c, u>> \in lapsed THEN "ended" ELSE "valid"

LimitOf(c) == IF status[c] = "none" THEN 0 ELSE 1

Promise == INSTANCE LimitedUse
  WITH Pass <- Challenge,
       stage <- [c \in Challenge |-> StageOf(c)],
       limit <- [c \in Challenge |-> LimitOf(c)],
       entered <- logins

OneLoginPerChallenge == Promise!Spec
=============================================================================
