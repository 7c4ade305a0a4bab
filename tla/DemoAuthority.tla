----------------------------- MODULE DemoAuthority -----------------------------
(***************************************************************************)
(* The library of the certificate-authority demo (demo/src/lib): the human *)
(* signs a delegation authorization (DA) for the agent's request, the CA   *)
(* turns it into an agent certificate, and a gateway verifies what an      *)
(* agent presents and reports the verdict as a table of rows.              *)
(*                                                                         *)
(* Abstractions.  A key pair is the number of its generation; the key      *)
(* identifiers, names, modes, lifetimes and times of the demo are the same *)
(* for every generation and left out.  So a key ring holds one key under   *)
(* the kid every human (or CA) uses, and a signature by an earlier key     *)
(* fails under it.                                                         *)
(***************************************************************************)
EXTENDS Naturals, Sequences

CONSTANTS
  Capabilities,  \* capability objects
  Grants,        \* DEFAULT_GRANTS, the P_grants of every human
  AgentCaps,     \* AGENT_CAPS, what the agent asks for
  QueryCap,      \* the capability of an ordinary request
  DropCap,       \* the capability nobody was granted
  Within,        \* <<grant, capability>>: pattern and parameters fit
  Matches,       \* <<allowed, request>>: the pattern allows the request
  MaxConcurrent  \* the quota the human writes into the DA

ASSUME CapabilityAssumption ==
  /\ Grants \subseteq Capabilities /\ AgentCaps \subseteq Capabilities
  /\ QueryCap \in Capabilities /\ DropCap \in Capabilities
ASSUME QuotaAssumption == MaxConcurrent \in Nat \ {0, 1}
\* The demo's capabilities: the agent asks for what the grants cover and what
\* allows the ordinary request; neither covers DropCap.
ASSUME PolicyAssumption ==
  /\ \A c \in AgentCaps : \E g \in Grants : <<g, c>> \in Within
  /\ \E c \in AgentCaps : <<c, QueryCap>> \in Matches
  /\ \A g \in Grants : <<g, DropCap>> \notin Within
  /\ \A c \in AgentCaps : <<c, DropCap>> \notin Matches

None == 0
Key  == Nat \ {None}

\* The nonce of a request is drawn with it; the DA and the certificate carry it.
DelegationRequest == [agent: Key, nonce: Key, caps: SUBSET Capabilities]
DAClaims    == [signer: Key, nonce: Key, caps: SUBSET Capabilities,
                limited: BOOLEAN]
Certificate == [ca: Key, cnf: Key, da: DAClaims,
                sealed: BOOLEAN, expired: BOOLEAN]

-----------------------------------------------------------------------------
(* Delegation and issuance.                                                *)

\* Mutant: the scheme alone decides, and all capabilities here share one.
CapsOfGrantedScheme(requested) == Grants # {}

CapsWithinGrants(requested) ==
  \A c \in requested : \E g \in Grants : <<g, c>> \in Within

BuildDelegationRequest(agent, nonce, caps) ==
  [agent |-> agent, nonce |-> nonce, caps |-> caps]

ApproveDelegation(human, req, limited) ==
  [signer |-> human, nonce |-> req.nonce, caps |-> req.caps,
   limited |-> limited]

\* What issueAgentCertificate tests; the policy of every human allows it.
Issuable(human, da) ==
  /\ da.signer = human
  /\ CapsWithinGrants(da.caps)

IssueAgentCertificate(ca, agent, da) ==
  [ca |-> ca, cnf |-> agent, da |-> da, sealed |-> TRUE, expired |-> FALSE]

TamperToken(cert) == [cert EXCEPT !.sealed = FALSE]

\* Signed afresh, by the CA of the world and not by the one of the original.
ExpiredCopy(cert, ca) ==
  [cert EXCEPT !.ca = ca, !.sealed = TRUE, !.expired = TRUE]

-----------------------------------------------------------------------------
(* The scenarios: what is presented to the gateway of a world w, by whom,  *)
(* asking for what, with how many requests running.                        *)

ScenarioId ==
  {"happy", "overreach", "expired", "tampered", "spoofed", "concurrency"}

Presentation(w, id, spoof) ==
  [cert      |-> CASE id = "expired"  -> ExpiredCopy(w.cert, w.ca)
                   [] id = "tampered" -> TamperToken(w.cert)
                   [] OTHER           -> w.cert,
   presenter |-> IF id = "spoofed" THEN spoof ELSE w.agent,
   cap       |-> IF id = "overreach" THEN DropCap ELSE QueryCap,
   running   |-> IF id = "concurrency" THEN MaxConcurrent + 1 ELSE 1]

-----------------------------------------------------------------------------
(* The gateway.                                                            *)

Check(row, ok, numbered, phrases) ==
  [row |-> row, ok |-> ok, numbered |-> numbered, phrases |-> phrases]

\* Mutant: validate() without the presenter check.
ChecksWithoutPresenter(p, w) ==
  << Check(1, p.cert.sealed /\ p.cert.ca = w.ca, FALSE, {}),
     Check(3, ~p.cert.expired, TRUE, {}),
     Check(4, p.cert.da.signer = w.human, FALSE, {}),
     Check(6, CapsWithinGrants(p.cert.da.caps), FALSE, {}),
     Check(7, p.cert.da.limited => p.running < MaxConcurrent,
           FALSE, {"max-concurrent"}),
     Check(9, \E c \in p.cert.da.caps : <<c, p.cap>> \in Matches, TRUE, {}) >>

\* The tests of validate() that the demo's artefacts can fail, in its order,
\* with the row of the audit table each belongs to, whether the message starts
\* with a step number, and the phrases of it the report looks for.
Checks(p, w) ==
  << Check(1, p.cert.sealed /\ p.cert.ca = w.ca, FALSE, {}),
     Check(3, ~p.cert.expired, TRUE, {}),
     Check(4, p.cert.da.signer = w.human, FALSE, {}),
     Check(6, CapsWithinGrants(p.cert.da.caps), FALSE, {}),
     Check(7, p.cert.da.limited => p.running < MaxConcurrent,
           FALSE, {"max-concurrent"}),
     Check(9, \E c \in p.cert.da.caps : <<c, p.cap>> \in Matches, TRUE, {}),
     Check(12, p.presenter = p.cert.cnf, FALSE, {"cnf: presenter"}) >>

Permits(checks) == \A n \in DOMAIN checks : checks[n].ok

FirstFailure(checks) ==
  CHOOSE n \in DOMAIN checks :
    ~checks[n].ok /\ \A m \in 1..(n - 1) : checks[m].ok

\* classifyFailure: the patterns in the order they are tried.
Patterns ==
  << <<12, "cnf: presenter">>, <<13, "mismatch">>, <<2, "kid">>,
     <<3, "expired">>, <<4, "DA ">>, <<5, "!=">>, <<6, "PA ">>,
     <<7, "max-concurrent">>, <<8, "max_depth">>, <<9, "not allowed">>,
     <<10, "status">> >>

ClassifyFailure(c) ==
  LET found == {n \in DOMAIN Patterns : Patterns[n][2] \in c.phrases}
  IN  CASE c.numbered -> c.row
        [] ~c.numbered /\ found # {} ->
             Patterns[CHOOSE n \in found : \A m \in found : n <= m][1]
        [] OTHER -> 1

\* The row the report marks as failed; Permit when every row is ok.
Permit == 0

VerifyAgentCertificate(p, w) ==
  LET checks == Checks(p, w)
  IN  IF Permits(checks) THEN Permit
      ELSE ClassifyFailure(checks[FirstFailure(checks)])
=============================================================================
