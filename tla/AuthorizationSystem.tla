-------------------------- MODULE AuthorizationSystem --------------------------
(***************************************************************************)
(* The authorization server and a resource server that trusts it.  Tokens  *)
(* flow one way: whatever the endpoint has issued may be presented to the  *)
(* resource server, any number of times and in any order.  State flows one *)
(* way too: StatusCheckerFor lets the resource server read the issuer's    *)
(* status map.                                                             *)
(***************************************************************************)
EXTENDS TokenEndpoint

CONSTANTS Checks, Proofs, ProofIds, Targets, Requested, Contexts, Window,
          MaxCheckLag, PA, HasChecker, Shallow, NoProof, NoAth, NoCheck

\* A DPoP proof carries the key that signed it (the jwk of its header).
ASSUME KeyedProofs == \A p \in Proofs : p.key # NoKey

VARIABLES replay, cpc, chk

RS == INSTANCE ResourceServer WITH wire <- Issued

\* What ResourceServer assumes of its constants.
ASSUME CheckAssumption ==
  /\ Proofs \subseteq RS!Proof /\ NoProof \notin Proofs
  /\ Window \in Nat /\ MaxCheckLag \in Nat
  /\ HasChecker \in BOOLEAN /\ Shallow \in BOOLEAN
  /\ Contexts \subseteq SUBSET Constraints
  /\ Requested \subseteq Capabilities \cup {NoCap}
  /\ NoCheck \notin RS!CheckLocals

sysVars == <<vars, replay, cpc, chk>>

SysInit == Init /\ RS!RSInit

SysNext ==
  \/ Next /\ UNCHANGED <<replay, cpc, chk>>
  \/ RS!RSNext /\ UNCHANGED vars

SysSpec == SysInit /\ [][SysNext]_sysVars

-----------------------------------------------------------------------------
(* End to end properties.                                                  *)

Permitted(c) == cpc[c] = "permitted"

\* Permission and redemption: at the resource server, two permitted checks
\* whose tokens were issued from DAs with the same nonce and bear that nonce
\* as their jti present one and the same token.
OneTokenPerDA ==
  \A c1, c2 \in Checks :
    LET t1 == chk[c1].t
        t2 == chk[c2].t
    IN  /\ Permitted(c1) /\ Permitted(c2)
        /\ t1.jti \in Nonces /\ t1.jti = t2.jti
        => t1 = t2

\* Call r is the one issuance behind token t: it redeemed the DA that t embeds,
\* it names the same subject, and no other call holds that DA's nonce, which is
\* spent.
IssuedOnceBy(r, t) ==
  /\ pc[r] = "granted" /\ req[r].flow \in DAFlows
  /\ req[r].da = t.da /\ tok[r].sub = t.sub
  /\ t.da.nonce \in nonces
  /\ \A s \in Requests : Holds(s) /\ req[s].da.nonce = t.da.nonce => s = r

\* From a decision back to the principal: a permitted check whose token embeds
\* a DA, through whatever chain of exchanges it came, goes back to exactly one
\* issuance; what was asked is allowed by the token issued there, in a context
\* that satisfies that token's constraints, and not after the DA's end.
EndToEndDelegation ==
  \A c \in Checks :
    LET q == chk[c] IN
    Permitted(c) /\ q.t.da # NoDA =>
      \E r \in Requests :
        /\ IssuedOnceBy(r, q.t)
        /\ q.cap # NoCap => MatchCapabilities(tok[r].caps, q.cap)
        /\ tok[r].constraints \subseteq q.met
        /\ q.at <= DAExp(req[r].da)

\* Section 11 step 8 of the draft, for tokens the endpoint issues.
PAHonoured == RS!PAConstraintsHonoured

\* oauth.go:81 ("jti -> revoked"), Revoke ("marks a token identifier as
\* revoked"): a token is not permitted once its jti has been revoked.
RevokedTokenDenied ==
  [][\A c \in Checks :
       cpc[c] = "decide" /\ chk[c].t.jti \in status
         => cpc'[c] # "permitted"]_sysVars

\* draft-wei-aic-jwt-02 Section 5.2: the verifier requires the key identified
\* by cnf to match agent_key_binding before it accepts a version 3 token.
BindingMatchesCnf ==
  \A c \in Checks :
    LET t == chk[c].t IN
    Permitted(c) /\ t.da # NoDA /\ t.da.ver = 3 => t.cnf = t.da.binding
=============================================================================
