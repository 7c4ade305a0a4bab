----------------------- MODULE AuthorizationSystemProofs -----------------------
(***************************************************************************)
(* Proofs about the composition: what the resource server permits, seen    *)
(* from the calls that issued the tokens.                                  *)
(***************************************************************************)
EXTENDS AuthorizationSystem, TokenEndpointProofs

\* A check holds a token that some call was granted.
PresentedKept ==
  \A c \in Checks : cpc[c] # "idle" => chk[c].t \in Issued

\* The inductive invariant of the composition.
SysAccounts ==
  /\ Accounts
  /\ DOMAIN cpc = Checks /\ cpc = [c \in Checks |-> cpc[c]]
  /\ DOMAIN chk = Checks /\ chk = [c \in Checks |-> chk[c]]
  /\ PresentedKept

\* An issued token stays issued: a call that was granted is over.
LEMMA IssuedGrows ==
  ASSUME Accounts, Next
  PROVE  Issued \subseteq Issued'
  <1>1. /\ tok \in [Requests -> OuterClaims \cup {NoToken}]
        /\ pc \in [Requests -> PCs]
    BY DEF Accounts, TypeOK
  <1>2. tok' = tok \/ \E r \in Requests : \E t :
                        pc[r] # "granted" /\ tok' = [tok EXCEPT ![r] = t]
    <2>1. ASSUME NEW r \in Requests, Entry(r) PROVE <1>2
      BY <2>1, EntryShaped DEF EntryShape, EntersWith, ReturnsToken, Enter
    <2>2. ASSUME NEW r \in Requests, IssueToken(r) PROVE <1>2
      BY <2>2 DEF IssueToken, Refuse, Return
    <2> QED
      BY <2>1, <2>2
      DEF Next, Find, FindCode, Spend, SpendCode, ValidateDelegation, Refuse,
          Consent, NewAuthCode, Revoke, Tick
  <1>3. \A r \in Requests : tok[r] # NoToken => tok'[r] = tok[r]
    BY <1>1, <1>2 DEF Accounts, GrantsKept
  <1> QED
    BY <1>3 DEF Issued

\* Nothing is presented yet.
LEMMA InitSysAccounts == SysInit => SysAccounts
  BY InitAccounts DEF SysInit, RS!RSInit, SysAccounts, PresentedKept

\* A step of the issuer.
LEMMA IssuerSysAccounts ==
  ASSUME SysAccounts, Next, UNCHANGED <<replay, cpc, chk>>
  PROVE  SysAccounts'
  <1>1. Accounts'
    BY NextAccounts DEF SysAccounts
  <1>2. PresentedKept'
    BY IssuedGrows DEF SysAccounts, PresentedKept
  <1> QED
    BY <1>1, <1>2 DEF SysAccounts

\* A step of the resource server: only Receive takes up a token, from the wire.
LEMMA ResourceSysAccounts ==
  ASSUME SysAccounts, RS!RSNext, UNCHANGED vars
  PROVE  SysAccounts'
  <1>1. Accounts' /\ Issued' = Issued
    BY NextAccounts DEF SysAccounts, vars, Issued
  <1>2. ASSUME NEW c \in Checks, RS!Receive(c)
        PROVE  /\ \E t \in Issued : \E to, l :
                    /\ l.t = t
                    /\ cpc' = [cpc EXCEPT ![c] = to]
                    /\ chk' = [chk EXCEPT ![c] = l]
    BY <1>2 DEF RS!Receive, RS!Present
  <1>3. ASSUME NEW c \in Checks, RS!VerifyDPoP(c) \/ RS!Decide(c)
        PROVE  /\ cpc[c] # "idle" /\ UNCHANGED chk
               /\ \E to : cpc' = [cpc EXCEPT ![c] = to]
    BY <1>3 DEF RS!VerifyDPoP, RS!Decide
  <1>4. CASE \E c \in Checks : RS!Receive(c)
    BY <1>1, <1>2, <1>4 DEF SysAccounts, PresentedKept
  <1>5. CASE \E c \in Checks : RS!VerifyDPoP(c) \/ RS!Decide(c)
    BY <1>1, <1>3, <1>5 DEF SysAccounts, PresentedKept
  <1> QED
    BY <1>4, <1>5 DEF RS!RSNext

\* One step of either server, or none.
LEMMA NextSysAccounts == SysAccounts /\ [SysNext]_sysVars => SysAccounts'
  <1> SUFFICES ASSUME SysAccounts, [SysNext]_sysVars PROVE SysAccounts'
    OBVIOUS
  <1>1. CASE UNCHANGED sysVars
    <2>1. Accounts' /\ Issued' = Issued
      BY <1>1, NextAccounts DEF SysAccounts, sysVars, vars, Issued
    <2> QED
      BY <1>1, <2>1 DEF sysVars, SysAccounts, PresentedKept
  <1>2. CASE SysNext
    BY <1>2, IssuerSysAccounts, ResourceSysAccounts DEF SysNext
  <1> QED
    BY <1>1, <1>2

\* One DA nonce names one token: calls that were granted tokens with the same
\* jti, drawn from the nonces, are the same call.
LEMMA JtiNamesToken ==
  ASSUME Accounts, NEW t1 \in Issued, NEW t2 \in Issued,
         t1.jti \in Nonces, t1.jti = t2.jti
  PROVE  t1 = t2
  <1>1. PICK r1 \in Requests : tok[r1] = t1 /\ tok[r1] # NoToken
    BY DEF Issued
  <1>2. PICK r2 \in Requests : tok[r2] = t2 /\ tok[r2] # NoToken
    BY DEF Issued
  <1>3. pc[r1] = "granted" /\ pc[r2] = "granted"
    BY <1>1, <1>2 DEF Accounts, GrantsKept
  <1>4. req[r1].flow \in DAFlows /\ req[r2].flow \in DAFlows
    BY <1>1, <1>2, <1>3, IdentifierAssumption DEF Accounts, GrantsKept
  <1>5. req[r1].da.nonce = req[r2].da.nonce
    BY <1>1, <1>2, <1>3, <1>4 DEF Accounts, GrantsKept
  <1>6. r1 = r2
    BY <1>3, <1>4, <1>5 DEF Accounts, SingleUse, Holds
  <1> QED
    BY <1>1, <1>2, <1>6

\* The bookkeeping of both servers is consistent in every reachable state.
THEOREM SysAccountsInvariant == SysSpec => []SysAccounts
  <1>1. SysInit => SysAccounts
    BY InitSysAccounts
  <1>2. SysAccounts /\ [SysNext]_sysVars => SysAccounts'
    BY NextSysAccounts
  <1> QED
    BY <1>1, <1>2, PTL DEF SysSpec

\* However often and in whatever order tokens are presented, the resource
\* server never permits two different tokens of one DA nonce.
THEOREM OneTokenPerDAHolds == SysSpec => []OneTokenPerDA
  <1>1. SysAccounts => OneTokenPerDA
    <2> SUFFICES ASSUME SysAccounts, NEW c1 \in Checks, NEW c2 \in Checks,
                        Permitted(c1), Permitted(c2),
                        chk[c1].t.jti \in Nonces,
                        chk[c1].t.jti = chk[c2].t.jti
                 PROVE  chk[c1].t = chk[c2].t
      BY DEF OneTokenPerDA
    <2>1. chk[c1].t \in Issued /\ chk[c2].t \in Issued
      BY DEF SysAccounts, PresentedKept, Permitted
    <2> QED
      BY <2>1, JtiNamesToken DEF SysAccounts
  <1> QED
    BY <1>1, SysAccountsInvariant, PTL

-----------------------------------------------------------------------------
(* From a decision back to one issuance.  Two halves meet in the DA that   *)
(* the token embeds.  The resource server permits nothing that the DA does *)
(* not cover, whatever the issuer does (Delegated).  The issuer embeds a   *)
(* DA only in the token of the one call that redeemed it, or in a token    *)
(* exchanged, in any number of steps, for that one (Originated).           *)

\* A check that has begun has no proof or one of those in circulation.
ProofsPresented ==
  \A c \in Checks : cpc[c] # "idle" => chk[c].proof \in Proofs \cup {NoProof}

\* The inductive invariant of this argument.
Delegated ==
  /\ DOMAIN cpc = Checks /\ cpc = [c \in Checks |-> cpc[c]]
  /\ DOMAIN chk = Checks /\ chk = [c \in Checks |-> chk[c]]
  /\ ProofsPresented
  /\ RS!DelegationHonoured

\* What the pipeline lets through with the options of Check.
LEMMA ValidateDelegated ==
  ASSUME NEW q, q.proof \in Proofs \cup {NoProof}, q.t.da # NoDA,
         RS!Validate(q.t, RS!CheckOptions(q))
  PROVE  /\ q.cap # NoCap => RS!MatchCapabilities(q.t.da.caps, q.cap)
         /\ q.t.da.constraints \subseteq q.met
         /\ q.at <= RS!DAExp(q.t.da)
         /\ q.proof # NoProof /\ q.t.da.ver = 3
              => q.proof.key = q.t.da.binding
  <1> DEFINE o == RS!CheckOptions(q)
  <1>1. /\ o.at = q.at /\ o.cap = q.cap /\ o.met = q.met
        /\ o.presenter = IF q.proof = NoProof THEN NoKey ELSE q.proof.key
    BY DEF RS!CheckOptions
  <1>2. /\ RS!DAStep(q.t, o) /\ RS!CheckConsistency(q.t, q.t.da)
        /\ RS!EvaluateConstraints(q.t, o) /\ RS!CapabilityStep(q.t, o)
    BY DEF RS!Validate
  <1> HIDE DEF o
  <1>3. q.t.caps = q.t.da.caps /\ q.t.constraints = q.t.da.constraints
    BY <1>2 DEF RS!CheckConsistency
  <1>4. /\ o.at <= RS!DAExp(q.t.da)
        /\ q.t.da.ver = 3 /\ o.presenter # NoKey
             => o.presenter = q.t.da.binding
    BY <1>2 DEF RS!DAStep, RS!ValidDA
  <1>5. q.proof # NoProof => o.presenter = q.proof.key /\ o.presenter # NoKey
    BY <1>1, KeyedProofs
  <1> QED
    BY <1>1, <1>2, <1>3, <1>4, <1>5
    DEF RS!EvaluateConstraints, RS!CapabilityStep

\* A check begins: it has its proof from those in circulation, and is not
\* permitted yet.
LEMMA ReceiveDelegated ==
  ASSUME Delegated, NEW c \in Checks, RS!Receive(c)
  PROVE  Delegated'
  <1>1. \E to \in {"decide", "prove"} : \E l :
          /\ l.proof \in Proofs \cup {NoProof}
          /\ cpc' = [cpc EXCEPT ![c] = to] /\ chk' = [chk EXCEPT ![c] = l]
    <2>1. PICK t \in Issued, p \in Proofs \cup {NoProof}, target \in Targets,
               aud \in Audiences, cap \in Requested, met \in Contexts,
               at \in {u \in 0..now : now - u <= MaxCheckLag} :
            RS!Present(c, t, p, target, aud, cap, met, at)
      BY DEF RS!Receive
    <2> DEFINE l == [t |-> t, proof |-> p, target |-> target, aud |-> aud,
                     cap |-> cap, met |-> met, at |-> at]
               to == IF p = NoProof THEN "decide" ELSE "prove"
    <2>2. /\ cpc' = [cpc EXCEPT ![c] = to] /\ chk' = [chk EXCEPT ![c] = l]
          /\ l.proof = p /\ to \in {"decide", "prove"}
      BY <2>1 DEF RS!Present
    <2> HIDE DEF l, to
    <2> QED
      BY <2>2
  <1>2. PICK to \in {"decide", "prove"} : \E l :
          /\ l.proof \in Proofs \cup {NoProof}
          /\ cpc' = [cpc EXCEPT ![c] = to] /\ chk' = [chk EXCEPT ![c] = l]
    BY <1>1
  <1>3. PICK l :
          /\ l.proof \in Proofs \cup {NoProof}
          /\ cpc' = [cpc EXCEPT ![c] = to] /\ chk' = [chk EXCEPT ![c] = l]
    BY <1>2
  <1>4. /\ cpc'[c] = to /\ chk'[c] = l
        /\ \A d \in Checks \ {c} : cpc'[d] = cpc[d] /\ chk'[d] = chk[d]
    BY <1>3 DEF Delegated
  <1>5. ProofsPresented'
    BY <1>3, <1>4 DEF Delegated, ProofsPresented
  <1>6. RS!DelegationHonoured'
    BY <1>3, <1>4 DEF Delegated, RS!DelegationHonoured
  <1> QED
    BY <1>3, <1>5, <1>6 DEF Delegated

\* The test of a proof permits nothing.
LEMMA VerifyDPoPDelegated ==
  ASSUME Delegated, NEW c \in Checks, RS!VerifyDPoP(c)
  PROVE  Delegated'
  <1>1. /\ cpc[c] = "prove" /\ UNCHANGED chk
        /\ \E to \in {"decide", "unproved"} : cpc' = [cpc EXCEPT ![c] = to]
    BY DEF RS!VerifyDPoP
  <1> QED
    BY <1>1 DEF Delegated, ProofsPresented, RS!DelegationHonoured

\* A decision permits what the pipeline accepts.
LEMMA DecideDelegated ==
  ASSUME Delegated, NEW c \in Checks, RS!Decide(c)
  PROVE  Delegated'
  <1> DEFINE ok == RS!Validate(chk[c].t, RS!CheckOptions(chk[c]))
             to == IF ok THEN "permitted" ELSE "denied"
  <1>1. /\ cpc[c] = "decide" /\ UNCHANGED chk
        /\ cpc' = [cpc EXCEPT ![c] = to]
    BY DEF RS!Decide
  <1>2. to = "permitted" => ok
    OBVIOUS
  <1> HIDE DEF to
  <1>3. ProofsPresented'
    BY <1>1 DEF Delegated, ProofsPresented
  <1>4. RS!DelegationHonoured'
    <2> SUFFICES ASSUME NEW d \in Checks, cpc'[d] = "permitted",
                        chk[d].t.da # NoDA
                 PROVE  /\ chk[d].cap # NoCap
                             => RS!MatchCapabilities(chk[d].t.da.caps, chk[d].cap)
                        /\ chk[d].t.da.constraints \subseteq chk[d].met
                        /\ chk[d].at <= RS!DAExp(chk[d].t.da)
                        /\ chk[d].proof # NoProof /\ chk[d].t.da.ver = 3
                             => chk[d].proof.key = chk[d].t.da.binding
      BY <1>1 DEF RS!DelegationHonoured
    <2>1. CASE d = c
      <3>1. chk[c].proof \in Proofs \cup {NoProof}
        BY <1>1 DEF Delegated, ProofsPresented
      <3>2. cpc'[c] = to
        BY <1>1 DEF Delegated
      <3> QED
        BY <1>2, <2>1, <3>1, <3>2, ValidateDelegated
    <2>2. CASE d # c
      <3>1. cpc[d] = "permitted"
        BY <1>1, <2>2 DEF Delegated
      <3> QED
        BY <3>1 DEF Delegated, RS!DelegationHonoured
    <2> QED
      BY <2>1, <2>2
  <1> QED
    BY <1>1, <1>3, <1>4 DEF Delegated

\* One step of either server, or none.
LEMMA NextDelegated == Delegated /\ [SysNext]_sysVars => Delegated'
  <1> SUFFICES ASSUME Delegated, [SysNext]_sysVars PROVE Delegated'
    OBVIOUS
  <1>1. CASE UNCHANGED <<cpc, chk>>
    BY <1>1 DEF Delegated, ProofsPresented, RS!DelegationHonoured
  <1>2. CASE RS!RSNext
    BY <1>2, ReceiveDelegated, VerifyDPoPDelegated, DecideDelegated
    DEF RS!RSNext
  <1> QED
    BY <1>1, <1>2 DEF SysNext, sysVars

\* No permitted request goes beyond what the principal signed.
LEMMA DelegatedInvariant == SysSpec => []Delegated
  <1>1. SysInit => Delegated
    BY DEF SysInit, RS!RSInit, Delegated, ProofsPresented, RS!DelegationHonoured
  <1>2. Delegated /\ [SysNext]_sysVars => Delegated'
    BY NextDelegated
  <1> QED
    BY <1>1, <1>2, PTL DEF SysSpec

\* The other half: every DA in a token was redeemed by a call of a DA flow.
Originated ==
  \A s \in Requests : pc[s] = "granted" /\ tok[s].da # NoDA =>
    \E r \in Requests : /\ pc[r] = "granted" /\ req[r].flow \in DAFlows
                        /\ req[r].da = tok[s].da

\* A call that was granted is over: a step changes nothing about it.
LEMMA GrantedStays ==
  ASSUME Accounts, [Next]_vars, NEW r \in Requests, pc[r] = "granted"
  PROVE  pc'[r] = "granted" /\ req'[r] = req[r] /\ tok'[r] = tok[r]
  <1>1. /\ pc \in [Requests -> PCs] /\ req \in [Requests -> Locals \cup {NoCall}]
        /\ tok \in [Requests -> OuterClaims \cup {NoToken}]
    BY DEF Accounts, TypeOK
  <1>2. ASSUME NEW x \in Requests, Entry(x)
        PROVE  pc'[r] = "granted" /\ req'[r] = req[r] /\ tok'[r] = tok[r]
    <2>1. PICK l \in Locals, next \in EntryStates : EntersWith(x, l, next)
      BY <1>2, EntryShaped DEF EntryShape
    <2> QED
      BY <1>1, <2>1 DEF EntersWith, Enter, ReturnsToken
  <1>3. ASSUME NEW x \in Requests, Find(x) \/ Spend(x)
        PROVE  pc'[r] = "granted" /\ req'[r] = req[r] /\ tok'[r] = tok[r]
    BY <1>1, <1>3 DEF Find, FindCode, Spend, SpendCode, Refuse
  <1>4. ASSUME NEW x \in Requests, ValidateDelegation(x) \/ IssueToken(x)
        PROVE  pc'[r] = "granted" /\ req'[r] = req[r] /\ tok'[r] = tok[r]
    BY <1>1, <1>4 DEF ValidateDelegation, IssueToken, Refuse, Return
  <1> QED
    BY <1>2, <1>3, <1>4 DEF Next, Consent, NewAuthCode, Revoke, Tick, vars

\* A token that a step of the issuer adds has a DA that was redeemed: by its own
\* call, or by the one behind the actor's token.
LEMMA NextOriginated == Accounts /\ Originated /\ [Next]_vars => Originated'
  <1> SUFFICES ASSUME Accounts, Originated, [Next]_vars, NEW s \in Requests,
                      pc'[s] = "granted", tok'[s].da # NoDA
               PROVE  \E r \in Requests :
                        /\ pc'[r] = "granted" /\ req'[r].flow \in DAFlows
                        /\ req'[r].da = tok'[s].da
    BY DEF Originated
  <1>1. Accounts'
    BY NextAccounts
  <1>2. CASE req'[s].flow \in DAFlows
    BY <1>1, <1>2 DEF Accounts, GrantsKept
  <1>3. CASE req'[s].flow \notin DAFlows
    <2>1. PICK x \in Requests : pc[x] = "granted" /\ tok[x].da = tok'[s].da
      <3>1. CASE pc[s] = "granted"
        BY <3>1, GrantedStays
      <3>2. CASE pc[s] # "granted"
        <4>1. /\ pc \in [Requests -> PCs]
              /\ req \in [Requests -> Locals \cup {NoCall}]
              /\ tok \in [Requests -> OuterClaims \cup {NoToken}]
          BY DEF Accounts, TypeOK
        <4>2. PICK y \in Requests : Entry(y)
          <5>1. ASSUME NEW y \in Requests, IssueToken(y) PROVE FALSE
            BY <1>3, <3>2, <4>1, <5>1
            DEF IssueToken, Refuse, Return, Accounts, UnderWay
          <5>2. ASSUME NEW y \in Requests,
                       Find(y) \/ Spend(y) \/ ValidateDelegation(y)
                PROVE  FALSE
            BY <3>2, <4>1, <5>2
            DEF Find, FindCode, Spend, SpendCode, ValidateDelegation, Refuse
          <5> QED
            BY <3>2, <5>1, <5>2
            DEF Next, Consent, NewAuthCode, Revoke, Tick, vars
        <4>3. y = s
          <5>1. PICK l \in Locals, next \in EntryStates : EntersWith(y, l, next)
            BY <4>2, EntryShaped DEF EntryShape
          <5> QED
            BY <3>2, <4>1, <5>1 DEF EntersWith, Enter
        <4>4. PICK key \in Keys, aud \in TargetAudiences, at \in Readings :
                \/ \E grant \in LightGrants, life \in Lifetimes :
                     IssueLightweight(s, grant, key, aud, at, life)
                \/ \E subject \in SubjectTokens, actor \in Issued :
                     TokenExchange(s, subject, actor, key, aud, at)
          BY <3>2, <4>1, <4>2, <4>3
          DEF Entry, JwtBearer, ShortIssuance, ExchangeCode, Enter
        <4>5. ASSUME NEW grant \in LightGrants, NEW life \in Lifetimes,
                     IssueLightweight(s, grant, key, aud, at, life)
              PROVE  FALSE
          BY <4>1, <4>5 DEF IssueLightweight, Enter, Return
        <4>6. PICK subject \in SubjectTokens, actor \in Issued :
                TokenExchange(s, subject, actor, key, aud, at)
          BY <4>4, <4>5
        <4>7. tok'[s].da = actor.da
          BY <4>1, <4>6 DEF TokenExchange, Enter, Return
        <4>8. PICK x \in Requests : tok[x] = actor /\ tok[x] # NoToken
          BY DEF Issued
        <4> QED
          BY <4>7, <4>8 DEF Accounts, GrantsKept
      <3> QED
        BY <3>1, <3>2
    <2>2. PICK r \in Requests :
            /\ pc[r] = "granted" /\ req[r].flow \in DAFlows
            /\ req[r].da = tok[x].da
      BY <2>1 DEF Originated
    <2> QED
      BY <2>1, <2>2, GrantedStays
  <1> QED
    BY <1>2, <1>3

\* Seen from the issuer alone, the system behaves as its specification says.
LEMMA SystemRunsEndpoint == SysSpec => Spec
  <1>1. SysInit => Init
    BY DEF SysInit
  <1>2. [SysNext]_sysVars => [Next]_vars
    BY DEF SysNext, sysVars
  <1> QED
    BY <1>1, <1>2, PTL DEF SysSpec, Spec

\* The two halves, put together for one permitted check.
LEMMA DecisionGoesBack ==
  ASSUME SysAccounts, Delegated, Originated, SignedRight, AuthorityTraced
  PROVE  EndToEndDelegation
  <1> SUFFICES ASSUME NEW c \in Checks, Permitted(c), chk[c].t.da # NoDA
               PROVE  \E r \in Requests :
                        /\ IssuedOnceBy(r, chk[c].t)
                        /\ chk[c].cap # NoCap
                             => MatchCapabilities(tok[r].caps, chk[c].cap)
                        /\ tok[r].constraints \subseteq chk[c].met
                        /\ chk[c].at <= DAExp(req[r].da)
    BY DEF EndToEndDelegation
  <1> DEFINE t == chk[c].t
  <1>1. PICK s \in Requests : tok[s] = t /\ pc[s] = "granted"
    BY DEF SysAccounts, PresentedKept, Permitted, Issued, Accounts, GrantsKept
  <1>2. PICK r \in Requests :
          /\ pc[r] = "granted" /\ req[r].flow \in DAFlows /\ req[r].da = t.da
    BY <1>1 DEF Originated
  <1>3. tok[r] = TokenFromDA(req[r])
    BY <1>2 DEF SignedRight
  <1>4. /\ tok[r].sub = OAuthSubject(t.da) /\ tok[r].caps = t.da.caps
        /\ tok[r].constraints = t.da.constraints
    BY <1>2, <1>3 DEF TokenFromDA
  <1>5. t.sub = OAuthSubject(t.da)
    BY <1>1 DEF AuthorityTraced, Traced
  <1>6. t.da.nonce \in nonces
    BY <1>2 DEF SysAccounts, Accounts, NoncesKept, Holds
  <1>7. \A x \in Requests : Holds(x) /\ req[x].da.nonce = t.da.nonce => x = r
    BY <1>2 DEF SysAccounts, Accounts, SingleUse, Holds
  <1>8. IssuedOnceBy(r, t)
    BY <1>2, <1>4, <1>5, <1>6, <1>7 DEF IssuedOnceBy
  <1>9. /\ chk[c].cap # NoCap => RS!MatchCapabilities(t.da.caps, chk[c].cap)
        /\ t.da.constraints \subseteq chk[c].met
        /\ chk[c].at <= RS!DAExp(t.da)
    BY DEF Delegated, RS!DelegationHonoured, Permitted
  <1> QED
    BY <1>2, <1>4, <1>8, <1>9
    DEF RS!MatchCapabilities, MatchCapabilities, RS!DAExp, DAExp

\* A permitted check goes back to exactly one issuance from the DA its token
\* embeds, through any chain of exchanges, and asks no more than was issued.
THEOREM EndToEndDelegationHolds == SysSpec => []EndToEndDelegation
  <1>1. Init => Originated /\ SignedRight /\ AuthorityTraced
    BY DEF Init, Originated, SignedRight, AuthorityTraced
  <1>2. Accounts /\ Originated /\ [Next]_vars => Originated'
    BY NextOriginated
  <1>3. Accounts /\ SignedRight /\ [Next]_vars => SignedRight'
    BY NextSignedRight
  <1>4. Accounts /\ AuthorityTraced /\ [Next]_vars => AuthorityTraced'
    BY NextTraced
  <1>5. Spec => [](Originated /\ SignedRight /\ AuthorityTraced)
    BY <1>1, <1>2, <1>3, <1>4, AccountsInvariant, PTL DEF Spec
  <1>6. SysAccounts /\ Delegated /\ Originated /\ SignedRight /\ AuthorityTraced
          => EndToEndDelegation
    BY DecisionGoesBack
  <1> QED
    BY <1>5, <1>6, SysAccountsInvariant, DelegatedInvariant, SystemRunsEndpoint,
       PTL
-----------------------------------------------------------------------------
(* The composition implements the resource server in its surroundings: the *)
(* issuer is one of the environments for which the resource server's       *)
(* theorems are proved, and it never takes a revocation back.  What is     *)
(* proved of RSSpec and RevocationsStand therefore holds of the system.    *)

\* The issuer keeps a sane clock and circulates well-formed tokens only.
LEMMA IssuerSurrounds == Accounts => RS!Surroundings
  BY DEF Accounts, TypeOK, Issued, RS!Surroundings, RS!OuterClaims, OuterClaims,
         RS!TokenIds, TokenIds, RS!Modes, Modes

\* Revocation is the only action of the issuer that writes the status map.
LEMMA StatusGrows ==
  ASSUME Accounts, [SysNext]_sysVars
  PROVE  status \subseteq status'
  <1>1. ASSUME NEW r \in Requests, Entry(r) PROVE UNCHANGED status
    BY <1>1, EntryShaped DEF EntryShape, EntersWith
  <1>2. ASSUME NEW r \in Requests, IssueToken(r) PROVE UNCHANGED status
    BY <1>2 DEF IssueToken, Refuse, Return
  <1>3. CASE Next
    BY <1>1, <1>2, <1>3
    DEF Next, Find, FindCode, Spend, SpendCode, ValidateDelegation, Refuse,
        Consent, NewAuthCode, Revoke, Tick
  <1> QED
    BY <1>3 DEF SysNext, sysVars, vars

\* Every behaviour of the two servers together is a behaviour of the resource
\* server, started afresh in surroundings that only ever add revocations.
THEOREM SystemImplementsResourceServer ==
  SysSpec => RS!RSSpec /\ RS!RevocationsStand
  <1>1. SysInit => RS!RSInit
    BY DEF SysInit
  <1>2. [SysNext]_sysVars => [RS!RSNext]_(RS!rsVars)
    BY DEF SysNext, sysVars, RS!rsVars
  <1>3. SysAccounts /\ [SysNext]_sysVars => [status \subseteq status']_status
    BY StatusGrows DEF SysAccounts
  <1>4. SysAccounts => RS!Surroundings
    BY IssuerSurrounds DEF SysAccounts
  <1> QED
    BY <1>1, <1>2, <1>3, <1>4, SysAccountsInvariant, PTL
    DEF SysSpec, RS!RSSpec, RS!RevocationsStand

=============================================================================
