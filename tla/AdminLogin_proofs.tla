-------------------------- MODULE AdminLogin_proofs --------------------------
(***************************************************************************)
(* Theorems about logins, for any users, browsers and challenges: a link   *)
(* logs in the user it was given to, once, and only while that user is an  *)
(* administrator.                                                          *)
(***************************************************************************)
EXTENDS AdminLogin, TLAPS

\* What is being claimed was started.
ClaimInv ==
  \A c \in Challenge, u \in User : <<c, u>> \in claiming => status[c] # "none"

\* A challenge has a token once it is claimed, and it is the claimant's.
TokenInv ==
  \A c \in Challenge, u \in User :
    <<c, u>> \in tokens <=> status[c] \in Claimed /\ claimant[c] = u

\* A challenge that was not completed has not been used and logged nobody in.
UseInv ==
  /\ \A c \in Challenge, u \in User : <<c, u>> \in used => status[c] = "completed"
  /\ \A c \in Challenge : logins[c] = IF status[c] = "completed" THEN 1 ELSE 0

\* A session comes from a link that was opened and given to its user.
SessionInv ==
  \A b \in Browser : session[b] \in User =>
    \E c \in Challenge : status[c] = "completed" /\ <<c, session[b]>> \in used

IInv == TypeOK /\ ClaimInv /\ TokenInv /\ UseInv /\ SessionInv
-----------------------------------------------------------------------------
USE LoginAssumption DEF Claimed, Statuses, Claim

\* A claim that finds no token finds the challenge pending.
LEMMA FinishClaimCases ==
  ASSUME IInv, NEW c \in Challenge, NEW u \in User, FinishClaim(c, u)
  PROVE  \/ UNCHANGED <<status, claimant, tokens>>
         \/ /\ status[c] = "pending"
            /\ status' = [status EXCEPT ![c] = "claimed"]
            /\ claimant' = [claimant EXCEPT ![c] = u]
            /\ tokens' = tokens \cup {<<c, u>>}
<1>1. CASE \E v \in User : <<c, v>> \in tokens
  BY <1>1 DEF FinishClaim
<1>2. CASE \A v \in User : <<c, v>> \notin tokens
  <2>1. status[c] \notin Claimed
    BY <1>2 DEF IInv, TypeOK, TokenInv
  <2>2. status[c] # "none" /\ status[c] \in Statuses
    BY DEF IInv, TypeOK, ClaimInv, FinishClaim
  <2>3. status[c] = "pending"
    BY <2>1, <2>2
  <2> QED BY <1>2, <2>3 DEF FinishClaim
<1> QED BY <1>1, <1>2

LEMMA FinishClaimStep ==
  ASSUME IInv, NEW c \in Challenge, NEW u \in User, FinishClaim(c, u)
  PROVE  IInv'
<1> USE DEF IInv
<1>1. /\ claiming' = claiming \ {<<c, u>>}
      /\ UNCHANGED <<admins, expired, used, lapsed, session, logins>>
  BY DEF FinishClaim
<1>2. CASE UNCHANGED <<status, claimant, tokens>>
  BY <1>1, <1>2 DEF TypeOK, ClaimInv, TokenInv, UseInv, SessionInv
<1>3. CASE /\ status[c] = "pending"
           /\ status' = [status EXCEPT ![c] = "claimed"]
           /\ claimant' = [claimant EXCEPT ![c] = u]
           /\ tokens' = tokens \cup {<<c, u>>}
  <2>1. TypeOK'
    BY <1>1, <1>3 DEF TypeOK
  <2>2. ClaimInv'
    BY <1>1, <1>3 DEF TypeOK, ClaimInv
  <2>3. TokenInv'
    BY <1>3 DEF TypeOK, TokenInv
  <2>4. UseInv'
    BY <1>1, <1>3 DEF TypeOK, UseInv
  <2>5. SessionInv'
    BY <1>1, <1>3 DEF TypeOK, SessionInv
  <2> QED BY <2>1, <2>2, <2>3, <2>4, <2>5
<1> QED BY <1>2, <1>3, FinishClaimCases

\* The link that is consumed is its claimant's.
LEMMA ConsumesOwnLink ==
  ASSUME IInv, NEW c \in Challenge, NEW u \in User, IsGood(c, u)
  PROVE  claimant[c] = u /\ status[c] = "claimed" /\ <<c, u>> \notin used
  BY DEF IInv, TokenInv, IsGood

LEMMA ConsumeStep ==
  ASSUME IInv, NEW c \in Challenge, NEW u \in User, NEW b \in Browser,
         Consume(c, u, b)
  PROVE  IInv'
<1> USE DEF IInv
<1>1. claimant[c] = u /\ status[c] = "claimed" /\ <<c, u>> \in tokens
  BY ConsumesOwnLink DEF Consume, IsGood
<1>2. /\ used' = used \cup {<<c, u>>}
      /\ status' = [status EXCEPT ![c] = "completed"]
      /\ logins' = [logins EXCEPT ![c] = @ + 1]
      /\ session' \in {session, [session EXCEPT ![b] = u]}
      /\ UNCHANGED <<admins, claimant, expired, claiming, tokens, lapsed>>
  BY <1>1 DEF Consume
<1>3. TypeOK'
  BY <1>1, <1>2 DEF TypeOK
<1>4. ClaimInv'
  BY <1>2 DEF TypeOK, ClaimInv
<1>5. TokenInv'
  BY <1>1, <1>2 DEF TypeOK, TokenInv
<1>6. UseInv'
  BY <1>1, <1>2 DEF TypeOK, UseInv
<1>7. SessionInv'
  <2> SUFFICES ASSUME NEW a \in Browser, session'[a] \in User
               PROVE  \E d \in Challenge :
                        status'[d] = "completed" /\ <<d, session'[a]>> \in used'
    BY DEF SessionInv
  <2>1. CASE session'[a] = session[a]
    BY <1>2, <2>1 DEF TypeOK, SessionInv
  <2>2. CASE session'[a] = u
    BY <1>2, <2>2 DEF TypeOK
  <2> QED BY <1>2, <2>1, <2>2 DEF TypeOK
<1> QED BY <1>3, <1>4, <1>5, <1>6, <1>7

LEMMA IInvStep == IInv /\ [Next]_vars => IInv'
<1> SUFFICES ASSUME IInv, [Next]_vars PROVE IInv'
  OBVIOUS
<1> USE DEF IInv, TypeOK, ClaimInv, TokenInv, UseInv, SessionInv
<1>1. CASE UNCHANGED vars
  BY <1>1 DEF vars, challenges, links
<1>2. ASSUME NEW u \in User, AuthorityChanges(u) PROVE IInv'
  <2>1. /\ admins' \in SUBSET User
        /\ UNCHANGED <<status, claimant, expired, claiming, tokens, used, lapsed,
                       session, logins>>
    BY <1>2 DEF AuthorityChanges, challenges, links
  <2> QED BY <2>1
<1>3. ASSUME NEW c \in Challenge, StartChallenge(c) PROVE IInv'
  <2>1. /\ status[c] = "none"
        /\ status' = [status EXCEPT ![c] = "pending"]
        /\ UNCHANGED <<admins, claimant, expired, claiming, tokens, used, lapsed,
                       session, logins>>
    BY <1>3 DEF StartChallenge, links
  <2>2. TypeOK'
    BY <2>1
  <2>3. ClaimInv' /\ TokenInv' /\ UseInv'
    BY <2>1
  <2>4. SessionInv'
    BY <2>1
  <2> QED BY <2>2, <2>3, <2>4
<1>4. ASSUME NEW c \in Challenge, ExpireChallenge(c) PROVE IInv'
  <2>1. /\ expired' \in SUBSET Challenge
        /\ UNCHANGED <<admins, status, claimant, claiming, tokens, used, lapsed,
                       session, logins>>
    BY <1>4 DEF ExpireChallenge, links
  <2> QED BY <2>1
<1>5. ASSUME NEW c \in Challenge, NEW u \in User, CheckClaim(c, u) PROVE IInv'
  <2>1. /\ status[c] = "pending"
        /\ claiming' = claiming \cup {<<c, u>>}
        /\ UNCHANGED <<admins, status, claimant, expired, tokens, used, lapsed,
                       session, logins>>
    BY <1>5 DEF CheckClaim, challenges, links
  <2>2. ClaimInv'
    BY <2>1
  <2>3. TypeOK'
    BY <2>1
  <2>4. TokenInv' /\ UseInv'
    BY <2>1
  <2>5. SessionInv'
    BY <2>1
  <2> QED BY <2>2, <2>3, <2>4, <2>5
<1>6. ASSUME NEW c \in Challenge, NEW u \in User, FinishClaim(c, u) PROVE IInv'
  BY <1>6, FinishClaimStep
<1>7. ASSUME NEW c \in Challenge, NEW u \in User, ExpireToken(<<c, u>>) PROVE IInv'
  BY <1>7 DEF ExpireToken, challenges
<1>8. ASSUME NEW c \in Challenge, NEW u \in User, NEW b \in Browser,
             Consume(c, u, b)
      PROVE  IInv'
  BY <1>8, ConsumeStep
<1>9. ASSUME NEW b \in Browser, LoginBootstrap(b) \/ Logout(b) PROVE IInv'
  <2>1. /\ \E n \in {Bootstrap, NoUser} : session' = [session EXCEPT ![b] = n]
        /\ UNCHANGED <<admins, status, claimant, expired, claiming, tokens, used,
                       lapsed, logins>>
    BY <1>9 DEF LoginBootstrap, Logout, challenges, links
  <2>2. session' \in [Browser -> User \cup {Bootstrap, NoUser}]
    BY <2>1
  <2>3. \A a \in Browser : session'[a] \in User => session'[a] = session[a]
    BY <2>1
  <2>4. SessionInv'
    BY <2>1, <2>3
  <2> QED BY <2>1, <2>2, <2>4
<1> QED BY <1>1, <1>2, <1>3, <1>4, <1>5, <1>6, <1>7, <1>8, <1>9 DEF Next, ClaimStep

LEMMA Invariance == Spec => []IInv
<1>1. Init => IInv
  BY DEF Init, IInv, TypeOK, ClaimInv, TokenInv, UseInv, SessionInv
<1> QED BY <1>1, IInvStep, PTL DEF Spec

(***************************************************************************)
(* Every reachable state of the login is well typed; a challenge names its *)
(* claimant exactly if it was claimed.                                     *)
(***************************************************************************)
THEOREM TypeCorrect == Spec => []TypeOK
<1>1. IInv => TypeOK
  BY DEF IInv
<1> QED BY <1>1, Invariance, PTL

(***************************************************************************)
(* However claims race, a browser is logged in only as the user who was    *)
(* given the link that was opened, and no link of that challenge was given *)
(* to anybody else.                                                        *)
(***************************************************************************)
THEOREM SessionsAreEarned == Spec => []SessionIsEarned
<1>1. ASSUME IInv, NEW b \in Browser, session[b] \in User
      PROVE  \E c \in Challenge : /\ status[c] = "completed"
                                  /\ Given(c) = {session[b]}
                                  /\ <<c, session[b]>> \in used
  <2>1. PICK c \in Challenge : status[c] = "completed" /\ <<c, session[b]>> \in used
    BY <1>1 DEF IInv, SessionInv
  <2>2. <<c, session[b]>> \in tokens
    BY <1>1, <2>1 DEF IInv, TypeOK
  <2>3. \A u \in User : <<c, u>> \in tokens => u = claimant[c]
    BY <1>1 DEF IInv, TokenInv
  <2>4. Given(c) = {session[b]}
    BY <1>1, <2>2, <2>3 DEF Given
  <2> QED BY <2>1, <2>4
<1>2. IInv => SessionIsEarned
  BY <1>1 DEF SessionIsEarned
<1> QED BY <1>2, Invariance, PTL
-----------------------------------------------------------------------------
(***************************************************************************)
(* A login needs the authority at the login, not only at the claim.        *)
(***************************************************************************)
THEOREM LoginsNeedAuthority == Spec => LoginNeedsAuthority
<1>1. ASSUME TypeOK, [Next]_vars, NEW b \in Browser,
             session'[b] \in User, session'[b] # session[b]
      PROVE  session'[b] \in admins
  <2>1. CASE UNCHANGED session
    BY <1>1, <2>1
  <2>2. ASSUME NEW a \in Browser, LoginBootstrap(a) \/ Logout(a)
        PROVE  session'[b] \notin User \/ session'[b] = session[b]
    <3>1. session \in [Browser -> User \cup {Bootstrap, NoUser}]
      BY <1>1 DEF TypeOK
    <3>2. PICK n \in {Bootstrap, NoUser} : session' = [session EXCEPT ![a] = n]
      BY <2>2 DEF LoginBootstrap, Logout
    <3> QED BY <3>1, <3>2
  <2>3. ASSUME NEW c \in Challenge, NEW u \in User, NEW a \in Browser,
               Consume(c, u, a)
        PROVE  session'[b] \in admins
    BY <1>1, <2>3 DEF Consume, TypeOK
  <2> QED BY <1>1, <2>1, <2>2, <2>3
          DEF Next, vars, AuthorityChanges, StartChallenge, ExpireChallenge,
              ClaimStep, CheckClaim, FinishClaim, ExpireToken
<1>2. TypeOK /\ [Next]_vars =>
        [\A b \in Browser : session'[b] \in User /\ session'[b] # session[b] =>
                            session'[b] \in admins]_vars
  BY <1>1
<1> QED BY <1>2, TypeCorrect, PTL DEF Spec, LoginNeedsAuthority
-----------------------------------------------------------------------------
Stage == [c \in Challenge |-> StageOf(c)]
Limit == [c \in Challenge |-> LimitOf(c)]

\* Links and challenges that are not used or expired leave the stages alone.
LEMMA StagesKept ==
  ASSUME IInv, UNCHANGED <<status, lapsed, logins>>
  PROVE  UNCHANGED Promise!state
  BY DEF Promise!state, StageOf, LimitOf

LEMMA StartKeepsPromise ==
  ASSUME IInv, NEW c \in Challenge, StartChallenge(c)
  PROVE  Promise!Next
<1>1. /\ status[c] = "none"
      /\ status' = [status EXCEPT ![c] = "pending"]
      /\ lapsed' = lapsed /\ logins' = logins
  BY DEF StartChallenge, links
<1>2. \A u \in User : <<c, u>> \notin lapsed
  BY <1>1 DEF IInv, TypeOK, TokenInv
<1>3. Stage[c] = "none" /\ Stage' = [Stage EXCEPT ![c] = "valid"]
  BY <1>1, <1>2 DEF Stage, StageOf, IInv, TypeOK
<1>4. Limit'[c] = 1 /\ Limit' = [Limit EXCEPT ![c] = 1]
  BY <1>1 DEF Limit, LimitOf, IInv, TypeOK
<1>5. Promise!Issue(c)
  BY <1>1, <1>3, <1>4 DEF Promise!Issue, Stage, Limit
<1> QED BY <1>5 DEF Promise!Next

LEMMA ClaimKeepsStages ==
  ASSUME IInv, NEW c \in Challenge, NEW u \in User, FinishClaim(c, u)
  PROVE  UNCHANGED Promise!state
<1>1. lapsed' = lapsed /\ logins' = logins
  BY DEF FinishClaim
<1>2. \A d \in Challenge : status'[d] = "none" <=> status[d] = "none"
  BY FinishClaimCases DEF IInv, TypeOK
<1> QED BY <1>1, <1>2 DEF Promise!state, StageOf, LimitOf

LEMMA ExpireTokenKeepsPromise ==
  ASSUME IInv, NEW c \in Challenge, NEW u \in User, ExpireToken(<<c, u>>)
  PROVE  Promise!Next
<1>1. /\ <<c, u>> \in tokens \ lapsed
      /\ lapsed' = lapsed \cup {<<c, u>>}
      /\ status' = status /\ logins' = logins
  BY DEF ExpireToken, challenges
<1>2. \A v \in User : <<c, v>> \notin lapsed
  BY <1>1 DEF IInv, TypeOK, TokenInv
<1>3. status[c] # "none"
  BY <1>1 DEF IInv, TokenInv
<1>4. Stage[c] = "valid"
  BY <1>2, <1>3 DEF Stage, StageOf
<1>5. Stage' = [Stage EXCEPT ![c] = "ended"]
  BY <1>1, <1>3 DEF Stage, StageOf
<1>6. Limit' = Limit
  BY <1>1 DEF Limit, LimitOf
<1>7. Promise!End(c)
  BY <1>1, <1>4, <1>5, <1>6 DEF Promise!End, Stage, Limit
<1> QED BY <1>7 DEF Promise!Next

LEMMA ConsumeKeepsPromise ==
  ASSUME IInv, NEW c \in Challenge, NEW u \in User, NEW b \in Browser,
         Consume(c, u, b)
  PROVE  Promise!Next
<1>1. claimant[c] = u /\ status[c] = "claimed" /\ <<c, u>> \in tokens \ lapsed
  BY ConsumesOwnLink DEF Consume, IsGood
<1>2. /\ status' = [status EXCEPT ![c] = "completed"]
      /\ logins' = [logins EXCEPT ![c] = @ + 1]
      /\ lapsed' = lapsed
  BY DEF Consume
<1>3. \A v \in User : <<c, v>> \notin lapsed
  BY <1>1 DEF IInv, TypeOK, TokenInv
<1>4. Stage[c] = "valid" /\ Stage' = Stage
  BY <1>1, <1>2, <1>3 DEF Stage, StageOf, IInv, TypeOK
<1>5. Limit[c] = 1 /\ Limit' = Limit /\ logins[c] = 0
  BY <1>1, <1>2 DEF Limit, LimitOf, IInv, TypeOK, UseInv
<1>6. Promise!Enter(c)
  BY <1>2, <1>4, <1>5 DEF Promise!Enter, Stage, Limit
<1> QED BY <1>6 DEF Promise!Next

(***************************************************************************)
(* Challenges implement LimitedUse: for any number of claims, browsers and *)
(* users, each is good for one login, before its link lapses.              *)
(***************************************************************************)
THEOREM OneLoginEach == Spec => OneLoginPerChallenge
<1>1. Init => Promise!Init
  BY DEF Init, Promise!Init, StageOf, LimitOf
<1>2. IInv /\ [Next]_vars => [Promise!Next]_(Promise!state)
  <2> SUFFICES ASSUME IInv, [Next]_vars PROVE [Promise!Next]_(Promise!state)
    OBVIOUS
  <2>1. ASSUME NEW c \in Challenge, StartChallenge(c) PROVE Promise!Next
    BY <2>1, StartKeepsPromise
  <2>2. ASSUME NEW c \in Challenge, NEW u \in User, FinishClaim(c, u)
        PROVE  UNCHANGED Promise!state
    BY <2>2, ClaimKeepsStages
  <2>3. ASSUME NEW c \in Challenge, NEW u \in User, ExpireToken(<<c, u>>)
        PROVE  Promise!Next
    BY <2>3, ExpireTokenKeepsPromise
  <2>4. ASSUME NEW c \in Challenge, NEW u \in User, NEW b \in Browser,
               Consume(c, u, b)
        PROVE  Promise!Next
    BY <2>4, ConsumeKeepsPromise
  <2>5. CASE UNCHANGED <<status, lapsed, logins>>
    BY <2>5, StagesKept
  <2>6. \/ UNCHANGED <<status, lapsed, logins>>
        \/ \E c \in Challenge : StartChallenge(c)
        \/ \E c \in Challenge, u \in User :
             \/ FinishClaim(c, u) \/ ExpireToken(<<c, u>>)
             \/ \E b \in Browser : Consume(c, u, b)
    BY DEF Next, vars, challenges, links, AuthorityChanges, ExpireChallenge,
           ClaimStep, CheckClaim, LoginBootstrap, Logout
  <2> QED BY <2>1, <2>2, <2>3, <2>4, <2>5, <2>6
<1> QED BY <1>1, <1>2, Invariance, PTL DEF Spec, OneLoginPerChallenge, Promise!Spec
=============================================================================
