-------------------------- MODULE TokenEndpointProofs --------------------------
(***************************************************************************)
(* Proofs about the token endpoint, for any number of calls, DAs, codes    *)
(* and keys, and with no bound on anything but the clock.                  *)
(*                                                                         *)
(* The argument is one inductive invariant, Accounts (TokenEndpoint): the  *)
(* stores hold what the calls in flight have taken.  Every flow enters     *)
(* through Enter, so one lemma covers all five entry points; the two steps *)
(* of the critical section, the two of IssueFromDA, the consent and the    *)
(* environment have one each.                                              *)
(***************************************************************************)
EXTENDS TokenEndpointRefinement, TLAPS

(***************************************************************************)
(* The records the model is built from.                                    *)
(***************************************************************************)

\* What a DA in circulation is made of, and what is computed from it.
LEMMA DelegationFields ==
  ASSUME NEW da \in Delegations
  PROVE  /\ da \in DAClaims
         /\ da.nonce \in Nonces
         /\ da.agent \in Agents
         /\ da.principal \in Principals
         /\ da.mode \in Modes
         /\ da.caps \in SUBSET Capabilities
         /\ da.constraints \in SUBSET Constraints
         /\ DAExp(da) \in Nat
         /\ OAuthSubject(da) \in Agents \cup Principals
         /\ da # NoDA
  BY DelegationsAssumption, NoneAssumption DEF DAClaims, DAExp, OAuthSubject

\* A clock reading is a natural number.
LEMMA ReadingsNat ==
  ASSUME now \in Nat, NEW at \in Readings
  PROVE  at \in Nat
  BY DEF Readings

\* IssueFromDA builds well-formed claims from the locals of a call whose
\* lifetime fits.
LEMMA TokenFromDAType ==
  ASSUME NEW q \in Locals, q.da \in Delegations, LifetimeFits(q),
         q.flow = "short" => q.life \in Lifetimes
  PROVE  /\ TokenFromDA(q) \in OuterClaims
         /\ TokenFromDA(q).da = q.da
         /\ TokenFromDA(q).jti = q.da.nonce
  <1>1. q.at \in Nat /\ q.key \in Keys /\ q.aud \in SUBSET Audiences
    BY DEF Locals
  <1>2. CASE q.flow = "short"
    <2>1. q.life \in Int /\ q.life >= 1
      BY <1>2, BoundsAssumption DEF LifetimeFits
    <2>2. q.at + q.life \in Nat
      BY <1>1, <2>1
    <2> QED
      BY <1>1, <1>2, <2>2, DelegationFields, ServerAssumption
      DEF TokenFromDA, OuterClaims, TokenIds
  <1>3. CASE q.flow # "short"
    BY <1>1, <1>3, DelegationFields, ServerAssumption
    DEF TokenFromDA, OuterClaims, TokenIds
  <1> QED
    BY <1>2, <1>3

(***************************************************************************)
(* Every step preserves Accounts.                                          *)
(***************************************************************************)

\* Nothing has entered, nothing is held.
LEMMA InitAccounts == Init => Accounts
  <1> SUFFICES ASSUME Init PROVE Accounts
    OBVIOUS
  <1>1. TypeOK
    BY DEF Init, TypeOK, PCs
  <1> QED
    BY <1>1 DEF Init, Accounts, LocalsKept, UnderWay, GrantsKept, NoncesKept,
                SingleUse, LockKept, CodesKept, CodeSpentOnce, Holds, Redeemed

\* Where an entry may leave its call.
EntryStates == {"lock", "validate", "granted", "refused"}

\* What it may do to tok: nothing, or return a token issued without a claim.
ReturnsToken(r, l, next) ==
  \/ next # "granted" /\ UNCHANGED tok
  \/ /\ next = "granted" /\ l.flow \notin DAFlows
     /\ \E t \in OuterClaims : t.jti = r /\ tok' = [tok EXCEPT ![r] = t]

\* The locals a call must bring along to be validated.
BringsDA(l) ==
  /\ l.flow \in DAFlows
  /\ l.da \in Delegations
  /\ l.flow = "short" => l.life \in Lifetimes

\* Every entry point is an Enter with locals of its own and no code, that does
\* to tok no more than the above.
EntersWith(r, l, next) ==
  /\ Enter(r, l, next)
  /\ UNCHANGED <<now, nonces, status, codes, stateMu>>
  /\ l.via = NoCode
  /\ ReturnsToken(r, l, next)
  /\ next = "validate" => BringsDA(l)
  /\ next = "lock" => l.flow = "code"

EntryShape(r) ==
  \E l \in Locals, next \in EntryStates : EntersWith(r, l, next)

\* Types across an entry.
LEMMA EnterType ==
  ASSUME Accounts, NEW r \in Requests, NEW l \in Locals, NEW next \in EntryStates,
         EntersWith(r, l, next)
  PROVE  TypeOK'
  <1>1. UNCHANGED <<now, nonces, status, codes, stateMu>> /\ TypeOK
    BY DEF EntersWith, Accounts
  <1>2. tok' \in [Requests -> OuterClaims \cup {NoToken}]
    BY DEF Accounts, TypeOK, EntersWith, ReturnsToken
  <1>3. pc' \in [Requests -> PCs]
    BY DEF Accounts, TypeOK, EntersWith, Enter, PCs, EntryStates
  <1>4. req' \in [Requests -> Locals \cup {NoCall}]
    BY DEF Accounts, TypeOK, EntersWith, Enter
  <1> QED
    BY <1>1, <1>2, <1>3, <1>4 DEF TypeOK

\* An entry of any flow preserves the accounts.
LEMMA EnterAccounts ==
  ASSUME Accounts, NEW r \in Requests, NEW l \in Locals, NEW next \in EntryStates,
         EntersWith(r, l, next)
  PROVE  Accounts'
  <1>1. TypeOK'
    BY EnterType
  <1>2. /\ pc[r] = "idle" /\ pc' = [pc EXCEPT ![r] = next]
        /\ req' = [req EXCEPT ![r] = l] /\ l.via = NoCode
        /\ UNCHANGED <<nonces, codes, stateMu>>
        /\ pc \in [Requests -> PCs] /\ req \in [Requests -> Locals \cup {NoCall}]
        /\ tok \in [Requests -> OuterClaims \cup {NoToken}]
        /\ stateMu \subseteq Requests
    BY DEF EntersWith, Enter, Accounts, TypeOK
  <1>3. next \notin {"idle", "sign", "locked"}
    BY DEF EntryStates
  <1>4. LocalsKept'
    BY <1>2, <1>3, AbsenceAssumption DEF Accounts, LocalsKept
  <1>5. UnderWay'
    BY <1>2, <1>3 DEF Accounts, UnderWay, EntersWith, BringsDA
  <1>6. GrantsKept'
    BY <1>2, AbsenceAssumption DEF Accounts, GrantsKept, EntersWith, ReturnsToken
  <1>7. \A s \in Requests : Holds(s)' => s # r /\ Holds(s) /\ req'[s] = req[s]
    BY <1>2, <1>3 DEF Holds, EntersWith, ReturnsToken
  <1>8. NoncesKept' /\ SingleUse'
    BY <1>2, <1>7 DEF Accounts, NoncesKept, SingleUse
  <1>9. LockKept'
    BY <1>2, <1>3 DEF Accounts, LockKept
  <1>10. \A s \in Requests :
           Redeemed(s)' => s # r /\ Redeemed(s) /\ req'[s] = req[s]
    BY <1>2 DEF Redeemed
  <1>11. CodesKept' /\ CodeSpentOnce'
    BY <1>2, <1>10 DEF Accounts, CodesKept, CodeSpentOnce
  <1> QED
    BY <1>1, <1>4, <1>5, <1>6, <1>8, <1>9, <1>11 DEF Accounts

\* A jwt-bearer request: refused by the client assertion, or on to ValidateDA.
LEMMA JwtBearerShape ==
  ASSUME Accounts, NEW r \in Requests, NEW da \in Delegations, NEW key \in Keys,
         NEW aud \in TargetAudiences, NEW at \in Readings,
         NEW assertion, NEW client,
         JwtBearer(r, da, key, aud, at, assertion, client)
  PROVE  EntryShape(r)
  <1> DEFINE l == [flow |-> "bearer", da |-> da, key |-> key, aud |-> aud,
                   at |-> at, via |-> NoCode, life |-> NoLife]
             next == IF \/ assertion = NoToken
                        \/ VerifyClientAssertion(assertion, client, at)
                     THEN "validate" ELSE "refused"
  <1>1. at \in Nat /\ aud \in SUBSET Audiences
    BY ReadingsNat, InputsAssumption DEF Accounts, TypeOK
  <1>2. l \in Locals
    BY <1>1 DEF Locals, AllFlows
  <1>3. Enter(r, l, next) /\ UNCHANGED <<now, nonces, status, codes, stateMu, tok>>
    BY DEF JwtBearer
  <1>4. next \in {"validate", "refused"} /\ l.via = NoCode /\ BringsDA(l)
    BY DEF BringsDA, DAFlows
  <1> HIDE DEF l, next
  <1> QED
    BY <1>2, <1>3, <1>4 DEF EntryShape, EntersWith, ReturnsToken, EntryStates

\* A short call always enters IssueFromDA.
LEMMA ShortIssuanceShape ==
  ASSUME Accounts, NEW r \in Requests, NEW da \in Delegations, NEW key \in Keys,
         NEW aud \in TargetAudiences, NEW at \in Readings, NEW life \in Lifetimes,
         ShortIssuance(r, da, key, aud, at, life)
  PROVE  EntryShape(r)
  <1> DEFINE l == [flow |-> "short", da |-> da, key |-> key, aud |-> aud,
                   at |-> at, via |-> NoCode, life |-> life]
  <1>1. at \in Nat /\ aud \in SUBSET Audiences
    BY ReadingsNat, InputsAssumption DEF Accounts, TypeOK
  <1>2. l \in Locals
    BY <1>1 DEF Locals, AllFlows
  <1>3. Enter(r, l, "validate") /\ UNCHANGED <<now, nonces, status, codes, stateMu, tok>>
    BY DEF ShortIssuance
  <1>4. l.via = NoCode /\ BringsDA(l)
    BY DEF BringsDA, DAFlows
  <1> HIDE DEF l
  <1> QED
    BY <1>2, <1>3, <1>4 DEF EntryShape, EntersWith, ReturnsToken, EntryStates

\* A code exchange waits for the lock.
LEMMA ExchangeCodeShape ==
  ASSUME Accounts, NEW r \in Requests, NEW key \in Keys,
         NEW aud \in TargetAudiences, NEW at \in Readings,
         ExchangeCode(r, key, aud, at)
  PROVE  EntryShape(r)
  <1> DEFINE l == [flow |-> "code", da |-> NoDA, key |-> key, aud |-> aud,
                   at |-> at, via |-> NoCode, life |-> NoLife]
  <1>1. at \in Nat /\ aud \in SUBSET Audiences
    BY ReadingsNat, InputsAssumption DEF Accounts, TypeOK
  <1>2. l \in Locals
    BY <1>1 DEF Locals, AllFlows
  <1>3. Enter(r, l, "lock")
        /\ UNCHANGED <<now, nonces, status, codes, stateMu, tok>>
    BY DEF ExchangeCode
  <1>4. l.via = NoCode /\ l.flow = "code"
    OBVIOUS
  <1> HIDE DEF l
  <1> QED
    BY <1>2, <1>3, <1>4 DEF EntryShape, EntersWith, ReturnsToken, EntryStates

\* The lightweight profile returns a token of its own or nothing.
LEMMA IssueLightweightShape ==
  ASSUME Accounts, NEW r \in Requests, NEW grant \in LightGrants,
         NEW key \in Keys, NEW aud \in TargetAudiences, NEW at \in Readings,
         NEW life \in Lifetimes,
         IssueLightweight(r, grant, key, aud, at, life)
  PROVE  EntryShape(r)
  <1> DEFINE l == [flow |-> "light", da |-> NoDA, key |-> key, aud |-> aud,
                   at |-> at, via |-> NoCode, life |-> life]
             ok == life \in 1..MaxLifetime
             next == IF ok THEN "granted" ELSE "refused"
             t == [iss |-> AS, sub |-> grant.agent, act |-> NoOne, aud |-> aud,
                   iat |-> at, exp |-> at + life, jti |-> r, cnf |-> key,
                   mode |-> "authorized", principal |-> grant.principal,
                   caps |-> grant.caps, constraints |-> grant.constraints,
                   da |-> NoDA, status |-> NoStatus, chain |-> 0, max |-> 0]
  <1>1. at \in Nat /\ aud \in SUBSET Audiences
    BY ReadingsNat, InputsAssumption DEF Accounts, TypeOK
  <1>2. l \in Locals
    BY <1>1 DEF Locals, AllFlows
  <1>3. Enter(r, l, next) /\ UNCHANGED <<now, nonces, status, codes, stateMu>>
    BY DEF IssueLightweight
  <1>4. ok => t \in OuterClaims /\ tok' = [tok EXCEPT ![r] = t]
    <2> SUFFICES ASSUME ok PROVE t \in OuterClaims /\ tok' = [tok EXCEPT ![r] = t]
      OBVIOUS
    <2>1. at + life \in Nat
      BY <1>1, LifetimeAssumption
    <2>2. /\ grant.agent \in Agents /\ grant.principal \in Principals
          /\ grant.caps \in SUBSET Capabilities
          /\ grant.constraints \in SUBSET Constraints
      BY InputsAssumption
    <2>3. t \in OuterClaims
      BY <1>1, <2>1, <2>2, ServerAssumption DEF OuterClaims, TokenIds, Modes
    <2> QED
      BY <2>3 DEF IssueLightweight, Return
  <1>5. ~ok => UNCHANGED tok
    BY DEF IssueLightweight
  <1>6. l.via = NoCode /\ next \in {"granted", "refused"}
    OBVIOUS
  <1>7. ReturnsToken(r, l, next)
    BY <1>4, <1>5 DEF ReturnsToken, DAFlows
  <1> HIDE DEF l, next
  <1> QED
    BY <1>2, <1>3, <1>6, <1>7 DEF EntryShape, EntersWith, EntryStates

\* Token exchange returns a token of its own or nothing.
LEMMA TokenExchangeShape ==
  ASSUME Accounts, NEW r \in Requests, NEW subject \in SubjectTokens,
         NEW actor \in Issued, NEW key \in Keys, NEW aud \in TargetAudiences,
         NEW at \in Readings,
         TokenExchange(r, subject, actor, key, aud, at)
  PROVE  EntryShape(r)
  <1> DEFINE l == [flow |-> "exchange", da |-> actor.da, key |-> key,
                   aud |-> aud, at |-> at, via |-> NoCode, life |-> NoLife]
             common == CommonCapabilities(actor, subject)
             ok == /\ VerifyPrincipalToken(subject, at)
                   /\ actor.mode # "representative"
                   /\ ValidAtIssuer(actor, at)
                   /\ common # {}
             next == IF ok THEN "granted" ELSE "refused"
             t == [iss |-> AS, sub |-> actor.sub, act |-> NoOne, aud |-> aud,
                   iat |-> at, exp |-> at + ExchangeLifetime, jti |-> r,
                   cnf |-> key, mode |-> actor.mode,
                   principal |-> actor.principal, caps |-> common,
                   constraints |-> {}, da |-> actor.da,
                   status |-> NoStatus, chain |-> 0, max |-> 0]
  <1>1. at \in Nat /\ aud \in SUBSET Audiences
    BY ReadingsNat, InputsAssumption DEF Accounts, TypeOK
  <1>2. actor \in OuterClaims
    BY DEF Issued, Accounts, TypeOK
  <1>3. l \in Locals
    BY <1>1, <1>2 DEF Locals, AllFlows, OuterClaims
  <1>4. Enter(r, l, next) /\ UNCHANGED <<now, nonces, status, codes, stateMu>>
    BY DEF TokenExchange
  <1>5. t \in OuterClaims
    <2>1. at + ExchangeLifetime \in Nat
      BY <1>1, BoundsAssumption
    <2>2. common \in SUBSET Capabilities
      BY <1>2 DEF OuterClaims, CommonCapabilities
    <2> QED
      BY <1>1, <1>2, <2>1, <2>2, ServerAssumption DEF OuterClaims, TokenIds
  <1>6. /\ ok => tok' = [tok EXCEPT ![r] = t]
        /\ ~ok => UNCHANGED tok
    BY DEF TokenExchange, Return
  <1>7. l.via = NoCode /\ next \in {"granted", "refused"}
    OBVIOUS
  <1>8. ReturnsToken(r, l, next)
    BY <1>5, <1>6 DEF ReturnsToken, DAFlows
  <1> HIDE DEF l, next
  <1> QED
    BY <1>3, <1>4, <1>7, <1>8 DEF EntryShape, EntersWith, EntryStates

\* The tests of ExchangeCode take the lock with an unspent code in hand, or
\* leave it free.
LEMMA FindCodeAccounts ==
  ASSUME Accounts, NEW r \in Requests, NEW c \in Codes, NEW client, NEW verifier,
         FindCode(r, c, client, verifier)
  PROVE  Accounts'
  <1> DEFINE ok == Redeemable(c, client, verifier, req[r].at)
             to == IF ok THEN "locked" ELSE "refused"
  <1>1. /\ pc[r] = "lock" /\ stateMu = {} /\ pc' = [pc EXCEPT ![r] = to]
        /\ UNCHANGED <<now, nonces, status, codes, tok>>
        /\ req' = IF ok THEN [req EXCEPT ![r].via = c] ELSE req
        /\ stateMu' = IF ok THEN {r} ELSE {}
    BY DEF FindCode, Refuse
  <1>2. /\ to \in {"locked", "refused"} /\ (to = "locked" <=> ok)
        /\ ok => codes[c] # NoCode /\ ~codes[c].used
    BY DEF Redeemable
  <1> HIDE DEF to, ok
  <1>3. /\ pc \in [Requests -> PCs] /\ req \in [Requests -> Locals \cup {NoCall}]
        /\ req[r] \in Locals /\ req[r].flow = "code" /\ req[r].via = NoCode
        /\ c # NoCode
    BY <1>1, AbsenceAssumption DEF Accounts, TypeOK, LocalsKept, UnderWay
  <1>4. /\ req'[r] \in Locals /\ req'[r].flow = "code"
        /\ ok => req'[r].via = c
        /\ ~ok => req'[r].via = NoCode
    BY <1>1, <1>3 DEF Locals
  <1>5. \A s \in Requests \ {r} : pc'[s] = pc[s] /\ req'[s] = req[s]
    BY <1>1, <1>3
  <1>6. pc'[r] = to
    BY <1>1, <1>3
  <1>7. TypeOK'
    BY <1>1, <1>2, <1>3, <1>4 DEF Accounts, TypeOK, PCs
  <1>8. LocalsKept' /\ UnderWay'
    BY <1>1, <1>2, <1>4, <1>5, <1>6, AbsenceAssumption
    DEF Accounts, LocalsKept, UnderWay
  <1>9. GrantsKept'
    BY <1>1, <1>2, <1>5, <1>6 DEF Accounts, GrantsKept
  <1>10. \A s \in Requests : Holds(s)' => s # r /\ Holds(s)
    BY <1>2, <1>5, <1>6 DEF Holds
  <1>11. NoncesKept' /\ SingleUse'
    BY <1>1, <1>5, <1>10 DEF Accounts, NoncesKept, SingleUse
  <1>12. LockKept'
    BY <1>1, <1>2, <1>3, <1>4, <1>5, <1>6 DEF Accounts, LockKept
  <1>13. \A s \in Requests : Redeemed(s)' => s # r /\ Redeemed(s)
    BY <1>2, <1>4, <1>5, <1>6 DEF Redeemed
  <1>14. CodesKept' /\ CodeSpentOnce'
    BY <1>1, <1>5, <1>13 DEF Accounts, CodesKept, CodeSpentOnce
  <1> QED
    BY <1>7, <1>8, <1>9, <1>11, <1>12, <1>14 DEF Accounts

\* What is known of a call about to spend its code: it is alone in the critical
\* section, and nobody has spent the code before it.
LEMMA SpendCodeFacts ==
  ASSUME Accounts, NEW r \in Requests, pc[r] = "locked"
  PROVE  /\ stateMu = {r}
         /\ req[r] \in Locals /\ req[r].flow = "code"
         /\ req[r].via \in Codes /\ req[r].via # NoCode
         /\ codes[req[r].via] \in AuthCode /\ ~codes[req[r].via].used
         /\ \A s \in Requests : Redeemed(s) => req[s].via # req[r].via
  <1>1. stateMu = {r}
    BY DEF Accounts, LockKept
  <1>2. req[r] \in Locals /\ req[r].flow = "code"
    BY DEF Accounts, TypeOK, LocalsKept, UnderWay
  <1>3. /\ req[r].via # NoCode /\ codes[req[r].via] # NoCode
        /\ ~codes[req[r].via].used
    BY <1>1 DEF Accounts, LockKept
  <1>4. req[r].via \in Codes
    BY <1>2, <1>3 DEF Locals
  <1>5. codes[req[r].via] \in AuthCode
    BY <1>3, <1>4 DEF Accounts, TypeOK
  <1>6. \A s \in Requests : Redeemed(s) => req[s].via # req[r].via
    BY <1>3 DEF Accounts, CodesKept
  <1> QED
    BY <1>1, <1>2, <1>3, <1>4, <1>5, <1>6

\* Spending a code hands its DA to one call.
LEMMA SpendCodeAccounts ==
  ASSUME Accounts, NEW r \in Requests, NEW actorToken, SpendCode(r, actorToken)
  PROVE  Accounts'
  <1> DEFINE c  == req[r].via
             ok == \/ actorToken = NoToken
                   \/ VerifyAgentActor(actorToken, codes[c].actor, req[r].at)
             to == IF ok THEN "validate" ELSE "refused"
  <1>1. /\ pc[r] = "locked" /\ pc' = [pc EXCEPT ![r] = to]
        /\ UNCHANGED <<now, nonces, status, tok>>
        /\ codes' = [codes EXCEPT ![c].used = TRUE]
        /\ stateMu' = stateMu \ {r}
        /\ req' = [req EXCEPT ![r].da = codes[c].da]
    BY DEF SpendCode
  <1>2. to \in {"validate", "refused"}
    OBVIOUS
  <1> HIDE DEF to
  <1>3. /\ stateMu = {r} /\ req[r] \in Locals /\ req[r].flow = "code"
        /\ c \in Codes /\ c # NoCode
        /\ codes[c] \in AuthCode /\ ~codes[c].used
        /\ \A s \in Requests : Redeemed(s) => req[s].via # c
    BY <1>1, SpendCodeFacts
  <1> HIDE DEF c
  <1>4. /\ pc \in [Requests -> PCs] /\ req \in [Requests -> Locals \cup {NoCall}]
        /\ codes \in [Codes -> AuthCode \cup {NoCode}]
    BY DEF Accounts, TypeOK
  <1>5. /\ codes'[c].used /\ codes'[c].da = codes[c].da
        /\ codes'[c] \in AuthCode /\ codes'[c] # NoCode
        /\ codes[c].da \in Delegations
        /\ \A d \in Codes \ {c} : codes'[d] = codes[d]
    BY <1>1, <1>3, <1>4, AbsenceAssumption DEF AuthCode
  <1>6. /\ req'[r] \in Locals /\ req'[r].flow = "code"
        /\ req'[r].via = c /\ req'[r].da = codes[c].da
    BY <1>1, <1>3, <1>4, <1>5 DEF Locals, c
  <1>7. \A s \in Requests \ {r} : pc'[s] = pc[s] /\ req'[s] = req[s]
    BY <1>1, <1>4
  <1>8. pc'[r] = to
    BY <1>1, <1>4
  <1>9. TypeOK'
    <2>1. codes' \in [Codes -> AuthCode \cup {NoCode}]
      BY <1>1, <1>3, <1>4, <1>5
    <2> QED
      BY <1>1, <1>2, <1>3, <1>4, <1>6, <2>1 DEF Accounts, TypeOK, PCs
  <1>10. LocalsKept' /\ UnderWay'
    BY <1>1, <1>2, <1>5, <1>6, <1>7, <1>8, AbsenceAssumption
    DEF Accounts, LocalsKept, UnderWay, DAFlows
  <1>11. GrantsKept'
    BY <1>1, <1>2, <1>7, <1>8 DEF Accounts, GrantsKept
  <1>12. \A s \in Requests : Holds(s)' => s # r /\ Holds(s)
    BY <1>2, <1>7, <1>8 DEF Holds
  <1>13. NoncesKept' /\ SingleUse'
    BY <1>1, <1>7, <1>12 DEF Accounts, NoncesKept, SingleUse
  <1>14. LockKept'
    BY <1>1, <1>2, <1>3, <1>7, <1>8 DEF Accounts, LockKept
  <1>15. \A s \in Requests \ {r} : Redeemed(s)' <=> Redeemed(s)
    BY <1>7 DEF Redeemed
  <1>16. \A s \in Requests \ {r} : Redeemed(s) => req[s].via \in Codes \ {c}
    <2> SUFFICES ASSUME NEW s \in Requests \ {r}, Redeemed(s)
                 PROVE  req[s].via \in Codes \ {c}
      OBVIOUS
    <2>1. req[s] \in Locals
      BY <1>4 DEF Accounts, LocalsKept, Redeemed
    <2> QED
      BY <1>3, <2>1 DEF Redeemed, Locals
  <1>17. CodesKept'
    BY <1>3, <1>5, <1>6, <1>7, <1>15, <1>16 DEF Accounts, CodesKept
  <1>18. CodeSpentOnce'
    BY <1>6, <1>7, <1>15, <1>16 DEF Accounts, CodeSpentOnce
  <1> QED
    BY <1>9, <1>10, <1>11, <1>13, <1>14, <1>17, <1>18 DEF Accounts

\* ValidateDA claims the nonce of its DA, which no call held before.
LEMMA ValidateDelegationAccounts ==
  ASSUME Accounts, NEW r \in Requests, ValidateDelegation(r)
  PROVE  Accounts'
  <1> DEFINE q  == req[r]
             ok == ValidDA(q.da, q.at) /\ q.da.nonce \notin nonces
             to == IF ok THEN "sign" ELSE "refused"
  <1>1. /\ pc[r] = "validate" /\ pc' = [pc EXCEPT ![r] = to]
        /\ UNCHANGED <<now, status, codes, stateMu, req, tok>>
        /\ nonces' = IF ok THEN nonces \cup {q.da.nonce} ELSE nonces
    BY DEF ValidateDelegation, Refuse
  <1>2. to \in {"sign", "refused"} /\ (to = "sign" <=> ok)
    OBVIOUS
  <1> HIDE DEF to
  <1>3. pc \in [Requests -> PCs] /\ nonces \subseteq Nonces
    BY DEF Accounts, TypeOK
  <1>4. q.da \in Delegations /\ q.da.nonce \in Nonces
    BY <1>1, DelegationFields DEF Accounts, UnderWay
  <1>5. TypeOK'
    BY <1>1, <1>2, <1>3, <1>4 DEF Accounts, TypeOK, PCs
  <1>6. LocalsKept' /\ UnderWay' /\ GrantsKept'
    BY <1>1, <1>2, <1>3 DEF Accounts, LocalsKept, UnderWay, GrantsKept
  <1>7. LockKept' /\ CodesKept' /\ CodeSpentOnce'
    BY <1>1, <1>2, <1>3
    DEF Accounts, LockKept, CodesKept, CodeSpentOnce, Redeemed
  <1>8. \A s \in Requests : Holds(s)' => Holds(s) \/ (s = r /\ ok)
    BY <1>1, <1>2, <1>3 DEF Holds
  <1>9. ~Holds(r)
    BY <1>1 DEF Holds
  <1>10. NoncesKept'
    BY <1>1, <1>8 DEF Accounts, NoncesKept
  <1>11. SingleUse'
    <2> SUFFICES ASSUME NEW r1 \in Requests, NEW r2 \in Requests,
                        Holds(r1)', Holds(r2)',
                        req[r1].da.nonce = req[r2].da.nonce
                 PROVE  r1 = r2
      BY <1>1 DEF SingleUse
    <2> QED
      BY <1>8, <1>9 DEF Accounts, SingleUse, NoncesKept
  <1> QED
    BY <1>5, <1>6, <1>7, <1>10, <1>11 DEF Accounts

\* The signature settles a claim; it makes none.
LEMMA IssueTokenAccounts ==
  ASSUME Accounts, NEW r \in Requests, IssueToken(r)
  PROVE  Accounts'
  <1> DEFINE q  == req[r]
             ok == Signable(q) /\ LifetimeFits(q)
             to == IF ok THEN "granted" ELSE "refused"
  <1>1. /\ pc[r] = "sign" /\ pc' = [pc EXCEPT ![r] = to]
        /\ UNCHANGED <<now, nonces, status, codes, stateMu, req>>
        /\ tok' = IF ok THEN [tok EXCEPT ![r] = TokenFromDA(q)] ELSE tok
    BY DEF IssueToken, Refuse, Return
  <1>2. to \in {"granted", "refused"} /\ (to = "granted" <=> ok)
    OBVIOUS
  <1> HIDE DEF to
  <1>3. /\ pc \in [Requests -> PCs] /\ req \in [Requests -> Locals \cup {NoCall}]
        /\ tok \in [Requests -> OuterClaims \cup {NoToken}]
    BY DEF Accounts, TypeOK
  <1>4. /\ q \in Locals /\ q.da \in Delegations /\ q.flow \in DAFlows
        /\ q.flow = "short" => q.life \in Lifetimes
    BY <1>1, <1>3 DEF Accounts, LocalsKept, UnderWay
  <1>5. ok => /\ TokenFromDA(q) \in OuterClaims
              /\ TokenFromDA(q).da = q.da
              /\ TokenFromDA(q).jti = q.da.nonce
    BY <1>4, TokenFromDAType
  <1>6. TypeOK'
    BY <1>1, <1>2, <1>3, <1>5 DEF Accounts, TypeOK, PCs
  <1>7. LocalsKept' /\ UnderWay'
    BY <1>1, <1>2, <1>3 DEF Accounts, LocalsKept, UnderWay
  <1>8. GrantsKept'
    BY <1>1, <1>2, <1>3, <1>4, <1>5, AbsenceAssumption
    DEF Accounts, GrantsKept
  <1>9. LockKept' /\ CodesKept' /\ CodeSpentOnce'
    BY <1>1, <1>2, <1>3
    DEF Accounts, LockKept, CodesKept, CodeSpentOnce, Redeemed
  <1>10. \A s \in Requests : Holds(s)' => Holds(s)
    BY <1>1, <1>2, <1>3, <1>4 DEF Holds
  <1>11. NoncesKept' /\ SingleUse'
    BY <1>1, <1>10 DEF Accounts, NoncesKept, SingleUse
  <1> QED
    BY <1>6, <1>7, <1>8, <1>9, <1>11 DEF Accounts

\* Consent fills a code that no call can have redeemed.
LEMMA NewAuthCodeAccounts ==
  ASSUME Accounts, NEW c \in Codes, NEW client \in Clients, NEW actor \in Agents,
         NEW da \in Delegations, NEW verifier \in Verifiers, NEW at \in Readings,
         NewAuthCode(c, client, actor, da, verifier, at)
  PROVE  Accounts'
  <1> DEFINE code == [client |-> client, actor |-> actor, da |-> da,
                      verifier |-> verifier, expires |-> at + CodeTTL,
                      used |-> FALSE]
  <1>1. /\ codes[c] = NoCode /\ codes' = [codes EXCEPT ![c] = code]
        /\ UNCHANGED <<now, nonces, status, stateMu, pc, req, tok>>
        /\ stateMu = {}
    BY DEF NewAuthCode
  <1>2. code \in AuthCode
    BY ReadingsNat, BoundsAssumption DEF AuthCode, Accounts, TypeOK
  <1>3. codes \in [Codes -> AuthCode \cup {NoCode}]
    BY DEF Accounts, TypeOK
  <1> HIDE DEF code
  <1>4. TypeOK'
    BY <1>1, <1>2, <1>3 DEF Accounts, TypeOK
  <1>5. LocalsKept' /\ UnderWay' /\ GrantsKept'
    BY <1>1 DEF Accounts, LocalsKept, UnderWay, GrantsKept
  <1>6. NoncesKept' /\ SingleUse' /\ CodeSpentOnce' /\ LockKept'
    BY <1>1
    DEF Accounts, NoncesKept, SingleUse, CodeSpentOnce, LockKept, Holds, Redeemed
  <1>7. CodesKept'
    <2> SUFFICES ASSUME NEW s \in Requests, Redeemed(s)
                 PROVE  codes'[req[s].via] = codes[req[s].via]
      BY <1>1 DEF Accounts, CodesKept, Redeemed
    <2>1. codes[req[s].via] # NoCode
      BY DEF Accounts, CodesKept
    <2> QED
      BY <1>1, <1>3, <2>1
  <1> QED
    BY <1>4, <1>5, <1>6, <1>7 DEF Accounts

\* A revocation or a tick touches none of the accounts.
LEMMA EnvironmentAccounts ==
  ASSUME Accounts, (\E id \in Revocable : Revoke(id)) \/ Tick
  PROVE  Accounts'
  <1>1. UNCHANGED <<nonces, codes, stateMu, pc, req, tok>>
    BY DEF Revoke, Tick
  <1>2. now' \in Nat /\ status' \subseteq TokenIds \cup StatusURIs
    BY RevocableAssumption DEF Revoke, Tick, Accounts, TypeOK
  <1> QED
    BY <1>1, <1>2
    DEF Accounts, TypeOK, LocalsKept, UnderWay, GrantsKept, NoncesKept,
        SingleUse, LockKept, CodesKept, CodeSpentOnce, Holds, Redeemed

\* Whichever entry point it is, it has the shape of an entry.
LEMMA EntryShaped ==
  ASSUME Accounts, NEW r \in Requests, Entry(r)
  PROVE  EntryShape(r)
  <1>1. PICK key \in Keys, aud \in TargetAudiences, at \in Readings :
          \/ \E da \in Delegations, assertion \in Issued \cup {NoToken},
                client \in Agents \cup {NoClient} :
               JwtBearer(r, da, key, aud, at, assertion, client)
          \/ \E da \in Delegations, life \in Lifetimes :
               ShortIssuance(r, da, key, aud, at, life)
          \/ ExchangeCode(r, key, aud, at)
          \/ \E grant \in LightGrants, life \in Lifetimes :
               IssueLightweight(r, grant, key, aud, at, life)
          \/ \E subject \in SubjectTokens, actor \in Issued :
               TokenExchange(r, subject, actor, key, aud, at)
    BY DEF Entry
  <1> QED
    BY <1>1, JwtBearerShape, ShortIssuanceShape, ExchangeCodeShape,
       IssueLightweightShape, TokenExchangeShape

\* So it preserves the accounts.
LEMMA EntryAccounts ==
  ASSUME Accounts, NEW r \in Requests, Entry(r)
  PROVE  Accounts'
  BY EntryShaped, EnterAccounts DEF EntryShape

\* One step, or none.
LEMMA NextAccounts == Accounts /\ [Next]_vars => Accounts'
  <1> SUFFICES ASSUME Accounts, [Next]_vars PROVE Accounts'
    OBVIOUS
  <1>1. ASSUME NEW r \in Requests, Entry(r) PROVE Accounts'
    BY <1>1, EntryAccounts
  <1>2. ASSUME NEW r \in Requests, ValidateDelegation(r) PROVE Accounts'
    BY <1>2, ValidateDelegationAccounts
  <1>3. ASSUME NEW r \in Requests, IssueToken(r) PROVE Accounts'
    BY <1>3, IssueTokenAccounts
  <1>7. ASSUME NEW r \in Requests, Find(r) PROVE Accounts'
    BY <1>7, FindCodeAccounts DEF Find
  <1>8. ASSUME NEW r \in Requests, Spend(r) PROVE Accounts'
    BY <1>8, SpendCodeAccounts DEF Spend
  <1>4. ASSUME Consent PROVE Accounts'
    BY <1>4, NewAuthCodeAccounts DEF Consent
  <1>5. ASSUME (\E id \in Revocable : Revoke(id)) \/ Tick PROVE Accounts'
    BY <1>5, EnvironmentAccounts
  <1>6. ASSUME UNCHANGED vars PROVE Accounts'
    BY <1>6
    DEF vars, Accounts, TypeOK, LocalsKept, UnderWay, GrantsKept, NoncesKept,
        SingleUse, LockKept, CodesKept, CodeSpentOnce, Holds, Redeemed
  <1> QED
    BY <1>1, <1>2, <1>3, <1>4, <1>5, <1>6, <1>7, <1>8 DEF Next

(***************************************************************************)
(* The theorems.                                                           *)
(***************************************************************************)

\* The bookkeeping of the token endpoint is consistent in every reachable
\* state.
THEOREM AccountsInvariant == Spec => []Accounts
  <1>1. Init => Accounts
    BY InitAccounts
  <1>2. Accounts /\ [Next]_vars => Accounts'
    BY NextAccounts
  <1> QED
    BY <1>1, <1>2, PTL DEF Spec

\* Every variable of the endpoint keeps its type.
THEOREM TypeCorrect == Spec => []TypeOK
  <1>1. Accounts => TypeOK
    BY DEF Accounts
  <1> QED
    BY <1>1, AccountsInvariant, PTL

\* One DA, one token: no two calls ever hold the same nonce.
THEOREM SingleUseHolds == Spec => []SingleUse
  <1>1. Accounts => SingleUse
    BY DEF Accounts
  <1> QED
    BY <1>1, AccountsInvariant, PTL

\* One code, one redemption: no two calls ever hold the same code.
THEOREM CodeSpentOnceHolds == Spec => []CodeSpentOnce
  <1>1. Accounts => CodeSpentOnce
    BY DEF Accounts
  <1> QED
    BY <1>1, AccountsInvariant, PTL

\* A redeemed code delivers the DA the principal consented to under it.
THEOREM CodeDeliversHolds == Spec => []CodeDelivers
  <1>1. Accounts => CodeDelivers
    <2> SUFFICES ASSUME Accounts, NEW r \in Requests, pc[r] = "granted",
                        req[r].via # NoCode
                 PROVE  /\ codes[req[r].via] # NoCode
                        /\ codes[req[r].via].used
                        /\ tok[r].da = codes[req[r].via].da
      BY DEF CodeDelivers
    <2> QED
      BY DEF Accounts, CodesKept, GrantsKept, Redeemed, DAFlows
  <1> QED
    BY <1>1, AccountsInvariant, PTL

(***************************************************************************)
(* Authority.                                                              *)
(***************************************************************************)

\* A token exchanged for a traced one is traced: it has the actor's subject,
\* principal, mode and DA, some of its capabilities, and no constraints.
LEMMA TracedExchange ==
  ASSUME NEW t, NEW u, NEW flow, Traced(t, flow), u.da = t.da, u.sub = t.sub,
         u.principal = t.principal, u.mode = t.mode, u.caps \subseteq t.caps,
         u.constraints = {}
  PROVE  Traced(u, "exchange")
  BY DEF Traced

\* If an entry of r returns a token, the token is traced, provided every token
\* before it was.
LEMMA EntryTraced ==
  ASSUME Accounts, AuthorityTraced, NEW r \in Requests, Entry(r),
         pc'[r] = "granted"
  PROVE  Traced(tok'[r], req'[r].flow)
  <1>1. PICK key \in Keys, aud \in TargetAudiences, at \in Readings :
          \/ \E da \in Delegations, assertion \in Issued \cup {NoToken},
                client \in Agents \cup {NoClient} :
               JwtBearer(r, da, key, aud, at, assertion, client)
          \/ \E da \in Delegations, life \in Lifetimes :
               ShortIssuance(r, da, key, aud, at, life)
          \/ ExchangeCode(r, key, aud, at)
          \/ \E grant \in LightGrants, life \in Lifetimes :
               IssueLightweight(r, grant, key, aud, at, life)
          \/ \E subject \in SubjectTokens, actor \in Issued :
               TokenExchange(r, subject, actor, key, aud, at)
    BY DEF Entry
  <1>2. /\ pc \in [Requests -> PCs] /\ req \in [Requests -> Locals \cup {NoCall}]
        /\ tok \in [Requests -> OuterClaims \cup {NoToken}]
    BY DEF Accounts, TypeOK
  <1>3. ASSUME NEW grant \in LightGrants, NEW life \in Lifetimes,
               IssueLightweight(r, grant, key, aud, at, life)
        PROVE  Traced(tok'[r], req'[r].flow)
    <2> DEFINE t == [iss |-> AS, sub |-> grant.agent, act |-> NoOne,
                     aud |-> aud, iat |-> at, exp |-> at + life, jti |-> r,
                     cnf |-> key, mode |-> "authorized",
                     principal |-> grant.principal, caps |-> grant.caps,
                     constraints |-> grant.constraints, da |-> NoDA,
                     status |-> NoStatus, chain |-> 0, max |-> 0]
    <2>1. tok'[r] = t /\ req'[r].flow = "light"
      BY <1>2, <1>3 DEF IssueLightweight, Enter, Return
    <2>2. Traced(t, "light")
      BY DEF Traced
    <2> QED
      BY <2>1, <2>2
  <1>4. ASSUME NEW subject \in SubjectTokens, NEW actor \in Issued,
               TokenExchange(r, subject, actor, key, aud, at)
        PROVE  Traced(tok'[r], req'[r].flow)
    <2> DEFINE t == [iss |-> AS, sub |-> actor.sub, act |-> NoOne, aud |-> aud,
                     iat |-> at, exp |-> at + ExchangeLifetime, jti |-> r,
                     cnf |-> key, mode |-> actor.mode,
                     principal |-> actor.principal,
                     caps |-> CommonCapabilities(actor, subject),
                     constraints |-> {}, da |-> actor.da,
                     status |-> NoStatus, chain |-> 0, max |-> 0]
    <2>1. tok'[r] = t /\ req'[r].flow = "exchange"
      BY <1>2, <1>4 DEF TokenExchange, Enter, Return
    <2>2. PICK s \in Requests : tok[s] = actor /\ pc[s] = "granted"
      BY DEF Issued, Accounts, GrantsKept
    <2>3. Traced(actor, req[s].flow)
      BY <2>2 DEF AuthorityTraced
    <2>4. t.caps \subseteq actor.caps
      BY DEF CommonCapabilities
    <2>5. Traced(t, "exchange")
      BY <2>3, <2>4, TracedExchange
    <2> QED
      BY <2>1, <2>5
  <1> QED
    BY <1>1, <1>2, <1>3, <1>4 DEF JwtBearer, ShortIssuance, ExchangeCode, Enter

\* One step, or none, adds traced tokens only.
LEMMA NextTraced == Accounts /\ AuthorityTraced /\ [Next]_vars => AuthorityTraced'
  <1> SUFFICES ASSUME Accounts, AuthorityTraced, [Next]_vars,
                      NEW s \in Requests, pc'[s] = "granted"
               PROVE  Traced(tok'[s], req'[s].flow)
    BY DEF AuthorityTraced
  <1>1. /\ pc \in [Requests -> PCs] /\ req \in [Requests -> Locals \cup {NoCall}]
        /\ tok \in [Requests -> OuterClaims \cup {NoToken}]
    BY DEF Accounts, TypeOK
  <1>2. CASE pc[s] = "granted" /\ tok'[s] = tok[s] /\ req'[s] = req[s]
    BY <1>2 DEF AuthorityTraced
  <1>3. ASSUME NEW r \in Requests, Entry(r) PROVE Traced(tok'[s], req'[s].flow)
    <2>1. CASE s = r
      BY <1>3, <2>1, EntryTraced
    <2>2. CASE s # r
      <3>1. PICK l \in Locals, next \in EntryStates : EntersWith(r, l, next)
        BY <1>3, EntryShaped DEF EntryShape
      <3>2. pc'[s] = pc[s] /\ req'[s] = req[s] /\ tok'[s] = tok[s]
        BY <1>1, <2>2, <3>1 DEF EntersWith, Enter, ReturnsToken
      <3> QED
        BY <1>2, <3>2
    <2> QED
      BY <2>1, <2>2
  <1>4. ASSUME NEW r \in Requests, IssueToken(r)
        PROVE  Traced(tok'[s], req'[s].flow)
    <2>1. CASE s = r
      <3>1. req[r].da \in Delegations /\ req[r].flow \in DAFlows
        BY <1>4 DEF IssueToken, Accounts, UnderWay
      <3>2. Traced(TokenFromDA(req[r]), req[r].flow)
        BY <3>1, DelegationFields DEF TokenFromDA, Traced, DAFlows
      <3>3. tok'[r] = TokenFromDA(req[r]) /\ req'[r] = req[r]
        BY <1>1, <1>4, <2>1 DEF IssueToken, Refuse, Return
      <3> QED
        BY <2>1, <3>2, <3>3
    <2>2. CASE s # r
      BY <1>1, <1>2, <1>4, <2>2 DEF IssueToken, Refuse, Return
    <2> QED
      BY <2>1, <2>2
  <1>5. ASSUME NEW r \in Requests, Find(r) \/ Spend(r) \/ ValidateDelegation(r)
        PROVE  Traced(tok'[s], req'[s].flow)
    <2>1. /\ UNCHANGED tok /\ pc[r] # "granted" /\ pc'[r] # "granted"
          /\ \A x \in Requests \ {r} : pc'[x] = pc[x] /\ req'[x] = req[x]
      BY <1>1, <1>5
      DEF Find, FindCode, Spend, SpendCode, ValidateDelegation, Refuse
    <2> QED
      BY <1>2, <2>1
  <1>6. CASE UNCHANGED <<pc, req, tok>>
    BY <1>2, <1>6
  <1> QED
    BY <1>3, <1>4, <1>5, <1>6
    DEF Next, Consent, NewAuthCode, Revoke, Tick, vars

\* A token has the agent, principal and mode of one DA or consent and nothing
\* beyond its capabilities, through chains of exchanges of any length, and its
\* constraints unless it was exchanged.
THEOREM AuthorityTracedHolds == Spec => []AuthorityTraced
  <1>1. Init => AuthorityTraced
    BY DEF Init, AuthorityTraced
  <1>2. Accounts /\ AuthorityTraced /\ [Next]_vars => AuthorityTraced'
    BY NextTraced
  <1> QED
    BY <1>1, <1>2, AccountsInvariant, PTL DEF Spec

(***************************************************************************)
(* Issuer and verifier agree: what the three DA flows sign, the validation *)
(* pipeline of the resource server accepts until it expires.               *)
(*                                                                         *)
(* A token is signed two steps after its call entered, and the DA, the     *)
(* clock reading and the lifetime are tested at different places: before   *)
(* the nonce is claimed (ValidDA), before the signature (Signable) and, in *)
(* the short flow, after a first signature (LifetimeFits).  The invariant  *)
(* carries those tests to the moment the token exists; from there the      *)
(* argument is about one token and one option record.                      *)
(***************************************************************************)

\* A call that is past ValidateDA has a DA that was valid on its own reading;
\* a granted one has passed the other tests and returned the token they allow.
SignedRight ==
  \A r \in Requests :
    LET q == req[r]
    IN  /\ pc[r] = "sign" => ValidDA(q.da, q.at)
        /\ pc[r] = "granted" /\ q.flow \in DAFlows =>
             /\ ValidDA(q.da, q.at) /\ Signable(q) /\ LifetimeFits(q)
             /\ q.flow = "short" => q.life \in Lifetimes
             /\ tok[r] = TokenFromDA(q)

\* A step of IssueFromDA, or an entry, keeps what was signed right.
LEMMA NextSignedRight ==
  Accounts /\ SignedRight /\ [Next]_vars => SignedRight'
  <1> SUFFICES ASSUME Accounts, SignedRight, [Next]_vars PROVE SignedRight'
    OBVIOUS
  <1>1. /\ pc \in [Requests -> PCs] /\ req \in [Requests -> Locals \cup {NoCall}]
        /\ tok \in [Requests -> OuterClaims \cup {NoToken}]
    BY DEF Accounts, TypeOK
  <1>2. ASSUME NEW r \in Requests, Entry(r) PROVE SignedRight'
    <2>1. PICK l \in Locals, next \in EntryStates :
            /\ Enter(r, l, next)
            /\ ReturnsToken(r, l, next)
      BY <1>2, EntryShaped DEF EntryShape, EntersWith
    <2>2. /\ pc' = [pc EXCEPT ![r] = next] /\ req' = [req EXCEPT ![r] = l]
          /\ \A s \in Requests \ {r} : tok'[s] = tok[s]
          /\ next = "granted" => l.flow \notin DAFlows
          /\ next # "sign"
      BY <1>1, <2>1 DEF Enter, ReturnsToken, EntryStates
    <2>3. /\ pc'[r] = next /\ req'[r] = l
          /\ \A s \in Requests \ {r} : pc'[s] = pc[s] /\ req'[s] = req[s]
      BY <1>1, <2>2
    <2> QED
      BY <2>2, <2>3 DEF SignedRight
  <1>3. ASSUME NEW r \in Requests, ValidateDelegation(r) PROVE SignedRight'
    <2>1. /\ UNCHANGED <<req, tok>>
          /\ \/ pc' = [pc EXCEPT ![r] = "sign"] /\ ValidDA(req[r].da, req[r].at)
             \/ pc' = [pc EXCEPT ![r] = "refused"]
      BY <1>3 DEF ValidateDelegation, Refuse
    <2> QED
      BY <1>1, <2>1 DEF SignedRight
  <1>4. ASSUME NEW r \in Requests, IssueToken(r) PROVE SignedRight'
    <2> DEFINE q == req[r]
    <2>1. /\ pc[r] = "sign" /\ UNCHANGED req /\ ValidDA(q.da, q.at)
          /\ \/ /\ Signable(q) /\ LifetimeFits(q)
                /\ pc' = [pc EXCEPT ![r] = "granted"]
                /\ tok' = [tok EXCEPT ![r] = TokenFromDA(q)]
             \/ pc' = [pc EXCEPT ![r] = "refused"] /\ UNCHANGED tok
      BY <1>4 DEF IssueToken, Refuse, Return, SignedRight
    <2>2. q.flow = "short" => q.life \in Lifetimes
      BY <2>1 DEF Accounts, UnderWay
    <2> HIDE DEF q
    <2>3. \A s \in Requests \ {r} : pc'[s] = pc[s] /\ tok'[s] = tok[s]
      BY <1>1, <2>1
    <2>4. /\ pc'[r] \in {"granted", "refused"}
          /\ pc'[r] = "granted" =>
               Signable(q) /\ LifetimeFits(q) /\ tok'[r] = TokenFromDA(q)
      BY <1>1, <2>1
    <2> QED
      BY <2>1, <2>2, <2>3, <2>4 DEF SignedRight, q
  <1>5. CASE UNCHANGED <<pc, req, tok>>
    BY <1>5 DEF SignedRight
  <1>6. ASSUME NEW r \in Requests, Find(r) \/ Spend(r) PROVE SignedRight'
    <2>1. /\ UNCHANGED tok /\ pc'[r] \notin {"sign", "granted"}
          /\ \A s \in Requests \ {r} : pc'[s] = pc[s] /\ req'[s] = req[s]
      BY <1>1, <1>6 DEF Find, FindCode, Spend, SpendCode, Refuse
    <2> QED
      BY <2>1 DEF SignedRight
  <1> QED
    BY <1>2, <1>3, <1>4, <1>5, <1>6
    DEF Next, Consent, NewAuthCode, Revoke, Tick, vars

\* The times of a token signed on a reading within the DA.
LEMMA SignedTimes ==
  ASSUME NEW q \in Locals, q.da \in Delegations, LifetimeFits(q),
         q.flow = "short" => q.life \in Lifetimes,
         q.da.ts <= q.at, q.at < DAExp(q.da)
  PROVE  LET t == TokenFromDA(q)
         IN  /\ t.iat = q.at /\ t.iat \in Nat /\ t.exp \in Int
             /\ t.iat < t.exp /\ t.exp <= DAExp(q.da)
             /\ t.exp - t.iat <= q.da.lifetime
  <1>1. /\ q.at \in Nat /\ q.da.ts \in Nat /\ q.da.lifetime \in Nat
        /\ DAExp(q.da) = q.da.ts + q.da.lifetime
    BY DelegationsAssumption DEF Locals, DAClaims, DAExp
  <1>2. CASE q.flow = "short"
    <2>1. q.life \in Int /\ q.life >= 1 /\ q.at + q.life <= DAExp(q.da)
      BY <1>2, BoundsAssumption DEF LifetimeFits
    <2>2. TokenFromDA(q).iat = q.at /\ TokenFromDA(q).exp = q.at + q.life
      BY <1>2 DEF TokenFromDA
    <2> QED
      BY <1>1, <2>1, <2>2
  <1>3. CASE q.flow # "short"
    <2>1. TokenFromDA(q).iat = q.at /\ TokenFromDA(q).exp = DAExp(q.da)
      BY <1>3 DEF TokenFromDA
    <2> QED
      BY <1>1, <2>1
  <1> QED
    BY <1>2, <1>3

\* Every step of validate() accepts it at every moment of its lifetime.
LEMMA AcceptedWhenSigned ==
  ASSUME NEW q \in Locals, q.da \in Delegations,
         q.flow = "short" => q.life \in Lifetimes,
         ValidDA(q.da, q.at), Signable(q), LifetimeFits(q),
         q.da.ts <= q.at, q.at < DAExp(q.da),
         Presentable(TokenFromDA(q))
  PROVE  AcceptedThroughout(TokenFromDA(q))
  <1> DEFINE t == TokenFromDA(q)
             o(at) == [at |-> at, aud |-> t.aud, presenter |-> t.cnf,
                       cap |-> NoCap,
                       pa |-> [principal |-> t.principal,
                               representative |-> TRUE,
                               grants |-> Capabilities, constraints |-> {}],
                       met |-> t.constraints, revoked |-> {},
                       checker |-> FALSE, shallow |-> TRUE]
  <1>1. /\ t.iat = q.at /\ t.iat \in Nat /\ t.exp \in Int
        /\ t.iat < t.exp /\ t.exp <= DAExp(q.da)
        /\ t.exp - t.iat <= q.da.lifetime
    BY SignedTimes
  <1>2. /\ t.iss = AS /\ t.aud = q.aud /\ t.cnf = q.key
        /\ t.sub = OAuthSubject(q.da)
        /\ t.act = IF q.da.mode = "representative" THEN q.da.agent ELSE NoOne
        /\ t.mode = q.da.mode /\ t.principal = q.da.principal
        /\ t.caps = q.da.caps /\ t.constraints = q.da.constraints
        /\ t.da = q.da /\ t.status = NoStatus /\ t.chain = 0 /\ t.max = 0
    BY DEF TokenFromDA
  <1> SUFFICES ASSUME NEW at \in t.iat..t.exp PROVE Validate(t, o(at))
    BY DEF AcceptedThroughout
  <1>3. at \in Int /\ t.iat <= at /\ at <= t.exp
    BY <1>1
  <1>4. /\ q.da.ts \in Nat /\ q.da.lifetime \in Nat
        /\ DAExp(q.da) = q.da.ts + q.da.lifetime
        /\ q.da.intact /\ q.da.caps # {} /\ q.da.caps \subseteq Capabilities
        /\ q.da.principal \in Principals /\ q.da # NoDA
    BY DelegationsAssumption, IntactAssumption, NoneAssumption
    DEF DAClaims, DAExp, ValidDA
  <1>5. CheckOuterRequired(t)
    BY <1>1, <1>2, <1>4 DEF CheckOuterRequired, Presentable
  <1>6. DAStep(t, o(at))
    <2>1. ValidDA(q.da, at)
      BY <1>1, <1>3, <1>4 DEF ValidDA
    <2>2. AS \in q.da.aud /\ (q.da.ver = 3 => q.key = q.da.binding)
      BY DEF Signable
    <2> QED
      BY <1>1, <1>2, <1>4, <2>1, <2>2 DEF DAStep
  <1>7. CheckConsistency(t, q.da)
    BY <1>2 DEF CheckConsistency
  <1>8. CheckPA(t, o(at).pa)
    <2>1. \A c \in t.caps : CapabilitySubset(c, Capabilities)
      BY DEF Presentable
    <2>2. o(at).pa # NoPA
      BY <1>2, <1>4, IntactAssumption
    <2> QED
      BY <2>1, <2>2 DEF CheckPA
  <1>9. EvaluateConstraints(t, o(at)) /\ CheckDepth(t, o(at))
    BY <1>2 DEF EvaluateConstraints, CheckDepth
  <1>10. CapabilityStep(t, o(at)) /\ StatusStep(t, o(at))
    BY <1>2 DEF CapabilityStep, StatusStep
  <1>11. PresenterStep(t, o(at))
    BY DEF PresenterStep
  <1>12. o(at).at = at
    OBVIOUS
  <1> HIDE DEF t, o
  <1> QED
    BY <1>2, <1>3, <1>5, <1>6, <1>7, <1>8, <1>9, <1>10, <1>11, <1>12
    DEF Validate

\* A token issued from a DA signed in the past and not yet at its end is
\* accepted by validate() until it expires, whatever raced with the call that
\* issued it, by a server in its audience with a PA for its capabilities.
THEOREM IssuedIsAcceptableHolds == Spec => []IssuedIsAcceptable
  <1>1. Init => SignedRight
    BY DEF Init, SignedRight
  <1>2. Accounts /\ SignedRight /\ [Next]_vars => SignedRight'
    BY NextSignedRight
  <1>3. Accounts /\ SignedRight => IssuedIsAcceptable
    <2> SUFFICES ASSUME Accounts, SignedRight, NEW r \in Requests,
                        pc[r] = "granted", req[r].flow \in DAFlows,
                        req[r].da.ts <= req[r].at,
                        req[r].at < DAExp(req[r].da),
                        Presentable(tok[r])
                 PROVE  AcceptedThroughout(tok[r])
      BY DEF IssuedIsAcceptable
    <2>1. req[r] \in Locals /\ req[r].da \in Delegations
      BY DEF Accounts, TypeOK, LocalsKept, GrantsKept
    <2>2. /\ ValidDA(req[r].da, req[r].at) /\ Signable(req[r])
          /\ LifetimeFits(req[r]) /\ tok[r] = TokenFromDA(req[r])
          /\ req[r].flow = "short" => req[r].life \in Lifetimes
      BY DEF SignedRight
    <2> QED
      BY <2>1, <2>2, AcceptedWhenSigned
  <1> QED
    BY <1>1, <1>2, <1>3, AccountsInvariant, PTL DEF Spec

(***************************************************************************)
(* The token endpoint implements DelegationGrants, for any number of calls *)
(* (the safety part: liveness stays with TLC).  A step of the endpoint is  *)
(* one step of one grant, or of one ticket, or invisible; Accounts rules   *)
(* out that two calls stand behind one grant.                              *)
(***************************************************************************)

\* Call r stands at s with a claim on nonce n.
Claimant(r, n, s) ==
  pc[r] = s /\ req[r].flow \in DAFlows /\ req[r].da.nonce = n

\* A step that changes neither the store nor who holds what is invisible in
\* the grants.
LEMMA GrantsUnchanged ==
  ASSUME UNCHANGED nonces,
         \A r \in Requests, n \in Nonces, s \in {"sign", "granted"} :
           Claimant(r, n, s)' <=> Claimant(r, n, s)
  PROVE  [n \in Nonces |-> GrantOf(n)]' = [n \in Nonces |-> GrantOf(n)]
  <1>1. \A n \in Nonces, s \in {"sign", "granted"} : HeldAt(n, s)' <=> HeldAt(n, s)
    BY DEF HeldAt, Claimant
  <1>2. \A n \in Nonces : GrantOf(n)' = GrantOf(n)
    BY <1>1 DEF GrantOf
  <1> QED
    BY <1>2

\* The stores start fresh.
LEMMA InitMaps == Init => DG!Init
  BY DEF Init, DG!Init, GrantOf, TicketOf

\* A step of call r that neither takes nor settles a claim, and no other call's,
\* is invisible in the grants.
LEMMA GrantsUntouched ==
  ASSUME Accounts, NEW r \in Requests, UNCHANGED nonces,
         pc[r] \notin {"sign", "granted"},
         pc'[r] \notin {"sign", "granted"} \/ req'[r].flow \notin DAFlows,
         \A x \in Requests \ {r} : pc'[x] = pc[x] /\ req'[x] = req[x]
  PROVE  [n \in Nonces |-> GrantOf(n)]' = [n \in Nonces |-> GrantOf(n)]
  <1>1. \A x \in Requests, n \in Nonces, s \in {"sign", "granted"} :
          Claimant(x, n, s)' <=> Claimant(x, n, s)
    BY DEF Claimant
  <1> QED
    BY <1>1, GrantsUnchanged

\* An entry is invisible.
LEMMA EntryMaps ==
  ASSUME Accounts, NEW r \in Requests, Entry(r)
  PROVE  UNCHANGED DG!vars
  <1>1. PICK l \in Locals, next \in EntryStates : EntersWith(r, l, next)
    BY EntryShaped DEF EntryShape
  <1>2. /\ pc[r] = "idle" /\ pc'[r] = next /\ req'[r] = l
        /\ \A x \in Requests \ {r} : pc'[x] = pc[x] /\ req'[x] = req[x]
        /\ UNCHANGED <<nonces, codes>> /\ next # "sign"
        /\ next = "granted" => l.flow \notin DAFlows
    BY <1>1 DEF EntersWith, Enter, ReturnsToken, EntryStates, Accounts, TypeOK
  <1>3. [n \in Nonces |-> GrantOf(n)]' = [n \in Nonces |-> GrantOf(n)]
    BY <1>2, GrantsUntouched
  <1> QED
    BY <1>2, <1>3 DEF DG!vars, TicketOf

\* So are the tests of a code exchange.
LEMMA FindCodeMaps ==
  ASSUME Accounts, NEW r \in Requests, NEW c \in Codes, NEW client, NEW verifier,
         FindCode(r, c, client, verifier)
  PROVE  UNCHANGED DG!vars
  <1>1. /\ pc[r] = "lock" /\ pc'[r] \in {"locked", "refused"}
        /\ \A x \in Requests \ {r} : pc'[x] = pc[x] /\ req'[x] = req[x]
        /\ UNCHANGED <<nonces, codes>>
    BY DEF FindCode, Refuse, Accounts, TypeOK
  <1>2. [n \in Nonces |-> GrantOf(n)]' = [n \in Nonces |-> GrantOf(n)]
    BY <1>1, GrantsUntouched
  <1> QED
    BY <1>1, <1>2 DEF DG!vars, TicketOf

\* Its write spends one ticket.
LEMMA SpendCodeMaps ==
  ASSUME Accounts, NEW r \in Requests, NEW actorToken, SpendCode(r, actorToken)
  PROVE  [DG!Next]_(DG!vars)
  <1>1. PICK c \in Codes :
          /\ c = req[r].via /\ c # NoCode
          /\ codes[c] \in AuthCode /\ ~codes[c].used
    BY SpendCodeFacts DEF SpendCode
  <1>2. /\ pc[r] = "locked" /\ pc'[r] \in {"validate", "refused"}
        /\ \A x \in Requests \ {r} : pc'[x] = pc[x] /\ req'[x] = req[x]
        /\ codes' = [codes EXCEPT ![c].used = TRUE] /\ UNCHANGED nonces
        /\ codes \in [Codes -> AuthCode \cup {NoCode}]
    BY <1>1 DEF SpendCode, Accounts, TypeOK
  <1>3. [n \in Nonces |-> GrantOf(n)]' = [n \in Nonces |-> GrantOf(n)]
    BY <1>2, GrantsUntouched
  <1>4. /\ codes'[c].used /\ codes'[c] \in AuthCode
        /\ \A d \in Codes \ {c} : codes'[d] = codes[d]
    BY <1>1, <1>2 DEF AuthCode
  <1>5. TicketOf(c) = "open" /\ TicketOf(c)' = "spent"
    BY <1>1, <1>4, AbsenceAssumption DEF TicketOf
  <1>6. \A d \in Codes \ {c} : TicketOf(d)' = TicketOf(d)
    BY <1>4 DEF TicketOf
  <1>7. DG!Spend(c)
    BY <1>3, <1>5, <1>6 DEF DG!Spend, DG!Punch
  <1> QED
    BY <1>7 DEF DG!Next

\* ValidateDA claims a fresh grant, or nothing happens.
LEMMA ValidateDelegationMaps ==
  ASSUME Accounts, NEW r \in Requests, ValidateDelegation(r)
  PROVE  [DG!Next]_(DG!vars)
  <1> DEFINE ok == /\ ValidDA(req[r].da, req[r].at)
                   /\ req[r].da.nonce \notin nonces
  <1>1. /\ pc[r] = "validate" /\ pc \in [Requests -> PCs]
        /\ UNCHANGED <<codes, req>>
        /\ req[r].flow \in DAFlows
    BY DEF ValidateDelegation, Refuse, Accounts, TypeOK, UnderWay
  <1>2. \A c \in Codes : TicketOf(c)' = TicketOf(c)
    BY <1>1 DEF TicketOf
  <1>3. CASE ~ok
    <2>1. pc' = [pc EXCEPT ![r] = "refused"] /\ UNCHANGED nonces
      BY <1>3 DEF ValidateDelegation, Refuse
    <2>2. \A x \in Requests, n \in Nonces, s \in {"sign", "granted"} :
            Claimant(x, n, s)' <=> Claimant(x, n, s)
      BY <1>1, <2>1 DEF Claimant
    <2>3. [n \in Nonces |-> GrantOf(n)]' = [n \in Nonces |-> GrantOf(n)]
      BY <2>1, <2>2, GrantsUnchanged
    <2> QED
      BY <1>2, <2>3 DEF DG!vars
  <1>4. CASE ok
    <2>1. PICK m \in Nonces : m = req[r].da.nonce
      BY <1>1, DelegationFields DEF Accounts, UnderWay
    <2>2. /\ pc' = [pc EXCEPT ![r] = "sign"] /\ nonces' = nonces \cup {m}
          /\ m \notin nonces
      BY <1>4, <2>1 DEF ValidateDelegation, Refuse
    <2>3. GrantOf(m) = "fresh" /\ GrantOf(m)' = "claimed"
      BY <1>1, <2>1, <2>2 DEF GrantOf, HeldAt
    <2>4. \A x \in Requests, n \in Nonces \ {m}, s \in {"sign", "granted"} :
            Claimant(x, n, s)' <=> Claimant(x, n, s)
      BY <1>1, <2>1, <2>2 DEF Claimant
    <2>5. \A n \in Nonces \ {m}, s \in {"sign", "granted"} :
            HeldAt(n, s)' <=> HeldAt(n, s)
      BY <2>4 DEF HeldAt, Claimant
    <2>6. \A n \in Nonces \ {m} : GrantOf(n)' = GrantOf(n)
      BY <2>2, <2>5 DEF GrantOf
    <2>7. DG!Claim(m)
      BY <1>2, <2>3, <2>6 DEF DG!Claim, DG!Move
    <2> QED
      BY <2>7 DEF DG!Next
  <1> QED
    BY <1>3, <1>4

\* The signature mints the grant that the call claimed, or burns it.
LEMMA IssueTokenMaps ==
  ASSUME Accounts, NEW r \in Requests, IssueToken(r)
  PROVE  [DG!Next]_(DG!vars)
  <1> DEFINE ok == Signable(req[r]) /\ LifetimeFits(req[r])
             to == IF ok THEN "granted" ELSE "refused"
  <1>1. /\ pc[r] = "sign" /\ pc' = [pc EXCEPT ![r] = to]
        /\ UNCHANGED <<nonces, codes, req>>
    BY DEF IssueToken, Refuse, Return
  <1>2. to \in {"granted", "refused"}
    OBVIOUS
  <1> HIDE DEF to
  <1>3. PICK m \in Nonces : m = req[r].da.nonce
    BY <1>1, DelegationFields DEF Accounts, UnderWay
  <1>4. /\ Holds(r) /\ m \in nonces
        /\ pc \in [Requests -> PCs] /\ req[r].flow \in DAFlows
    BY <1>1, <1>3 DEF Holds, Accounts, TypeOK, UnderWay, NoncesKept
  <1>5. \A x \in Requests \ {r} :
          ~Claimant(x, m, "sign") /\ ~Claimant(x, m, "granted")
    BY <1>3, <1>4 DEF Accounts, SingleUse, Claimant, Holds
  <1>6. GrantOf(m) = "claimed"
    BY <1>1, <1>3, <1>4 DEF GrantOf, HeldAt
  <1>7. \A x \in Requests \ {r} :
          ~Claimant(x, m, "sign")' /\ ~Claimant(x, m, "granted")'
    BY <1>1, <1>4, <1>5 DEF Claimant
  <1>8. /\ HeldAt(m, "sign")' = FALSE
        /\ HeldAt(m, "granted")' = (to = "granted")
    BY <1>1, <1>2, <1>3, <1>4, <1>7 DEF HeldAt, Claimant
  <1>9. GrantOf(m)' = IF to = "granted" THEN "minted" ELSE "burnt"
    BY <1>1, <1>4, <1>8 DEF GrantOf
  <1>10. \A x \in Requests, n \in Nonces \ {m}, s \in {"sign", "granted"} :
           Claimant(x, n, s)' <=> Claimant(x, n, s)
    BY <1>1, <1>3, <1>4 DEF Claimant
  <1>11. \A n \in Nonces \ {m}, s \in {"sign", "granted"} :
           HeldAt(n, s)' <=> HeldAt(n, s)
    BY <1>10 DEF HeldAt, Claimant
  <1>12. \A n \in Nonces \ {m} : GrantOf(n)' = GrantOf(n)
    BY <1>1, <1>11 DEF GrantOf
  <1>13. \A c \in Codes : TicketOf(c)' = TicketOf(c)
    BY <1>1 DEF TicketOf
  <1>14. CASE to = "granted"
    <2>1. DG!Mint(m)
      BY <1>3, <1>6, <1>9, <1>12, <1>13, <1>14 DEF DG!Mint, DG!Move
    <2> QED
      BY <1>3, <2>1 DEF DG!Next
  <1>15. CASE to = "refused"
    <2>1. DG!Burn(m)
      BY <1>3, <1>6, <1>9, <1>12, <1>13, <1>15 DEF DG!Burn, DG!Move
    <2> QED
      BY <1>3, <2>1 DEF DG!Next
  <1> QED
    BY <1>2, <1>14, <1>15

\* A step that leaves the calls and the nonces alone is invisible in the grants.
LEMMA CallsUnchanged ==
  ASSUME UNCHANGED <<nonces, pc, req>>
  PROVE  [n \in Nonces |-> GrantOf(n)]' = [n \in Nonces |-> GrantOf(n)]
  BY GrantsUnchanged DEF Claimant

\* Consent opens a ticket.
LEMMA NewAuthCodeMaps ==
  ASSUME Accounts, NEW c \in Codes, NEW client \in Clients, NEW actor \in Agents,
         NEW da \in Delegations, NEW verifier \in Verifiers, NEW at \in Readings,
         NewAuthCode(c, client, actor, da, verifier, at)
  PROVE  [DG!Next]_(DG!vars)
  <1> DEFINE code == [client |-> client, actor |-> actor, da |-> da,
                      verifier |-> verifier, expires |-> at + CodeTTL,
                      used |-> FALSE]
  <1>1. /\ codes[c] = NoCode /\ codes' = [codes EXCEPT ![c] = code]
        /\ UNCHANGED <<nonces, pc, req>>
        /\ codes \in [Codes -> AuthCode \cup {NoCode}]
    BY DEF NewAuthCode, Accounts, TypeOK
  <1>2. code \in AuthCode /\ code.used = FALSE
    BY ReadingsNat, BoundsAssumption DEF AuthCode, Accounts, TypeOK
  <1> HIDE DEF code
  <1>3. TicketOf(c) = "unissued" /\ TicketOf(c)' = "open"
    BY <1>1, <1>2, AbsenceAssumption DEF TicketOf
  <1>4. \A d \in Codes \ {c} : TicketOf(d)' = TicketOf(d)
    BY <1>1 DEF TicketOf
  <1>5. [n \in Nonces |-> GrantOf(n)]' = [n \in Nonces |-> GrantOf(n)]
    BY <1>1, CallsUnchanged
  <1>6. DG!Open(c)
    BY <1>3, <1>4, <1>5 DEF DG!Open, DG!Punch
  <1> QED
    BY <1>6 DEF DG!Next

\* Every step of the endpoint is a step of the abstract specification or none.
LEMMA NextMaps == Accounts /\ [Next]_vars => [DG!Next]_(DG!vars)
  <1> SUFFICES ASSUME Accounts, [Next]_vars PROVE [DG!Next]_(DG!vars)
    OBVIOUS
  <1>1. ASSUME NEW r \in Requests, Entry(r) PROVE [DG!Next]_(DG!vars)
    BY <1>1, EntryMaps
  <1>2. ASSUME NEW r \in Requests, ValidateDelegation(r)
        PROVE  [DG!Next]_(DG!vars)
    BY <1>2, ValidateDelegationMaps
  <1>3. ASSUME NEW r \in Requests, IssueToken(r) PROVE [DG!Next]_(DG!vars)
    BY <1>3, IssueTokenMaps
  <1>4. ASSUME Consent PROVE [DG!Next]_(DG!vars)
    BY <1>4, NewAuthCodeMaps DEF Consent
  <1>5. ASSUME \/ \E id \in Revocable : Revoke(id)
               \/ Tick
               \/ UNCHANGED vars
        PROVE  [DG!Next]_(DG!vars)
    <2>1. UNCHANGED <<nonces, codes, pc, req>>
      BY <1>5 DEF Revoke, Tick, vars
    <2>2. [n \in Nonces |-> GrantOf(n)]' = [n \in Nonces |-> GrantOf(n)]
      BY <2>1, CallsUnchanged
    <2> QED
      BY <2>1, <2>2 DEF DG!vars, TicketOf
  <1>6. ASSUME NEW r \in Requests, Find(r) PROVE [DG!Next]_(DG!vars)
    BY <1>6, FindCodeMaps DEF Find
  <1>7. ASSUME NEW r \in Requests, Spend(r) PROVE [DG!Next]_(DG!vars)
    BY <1>7, SpendCodeMaps DEF Spend
  <1> QED
    BY <1>1, <1>2, <1>3, <1>4, <1>5, <1>6, <1>7 DEF Next

\* The token endpoint implements one-time grants and one-time codes.
THEOREM GrantsImplemented == Spec => ImplementsGrants
  <1>1. Init => DG!Init
    BY InitMaps
  <1>2. Accounts /\ [Next]_vars => [DG!Next]_(DG!vars)
    BY NextMaps
  <1> QED
    BY <1>1, <1>2, AccountsInvariant, PTL DEF Spec, DG!Spec, ImplementsGrants

=============================================================================
