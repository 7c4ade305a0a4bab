SPECIFICATION Spec
CONSTANTS
  agent1 = agent1  agent2 = agent2  alice = alice  bob = bob  read = read  part = part
  w1 = w1  w2 = w2  j1 = j1  post = post  get = get  v1 = v1
  v2 = v2  NoPA = NoPA  NoProof = NoProof  NoCap = NoCap  NoGrant = NoGrant  NoRun = NoRun
  Agents = {agent1, agent2}
  Principals = {alice, bob}
  Capabilities = {read, part}
  Covered <- Narrower
  Delegations <- Circulating
  Authorizations <- SomeGrants
  Issues = {w1, w2}
  Jtis = {j1}
  Targets = {post, get}
  Verifications = {v1, v2}
  MaxLifetime = 1
  ProofTTL = 1
  MaxProofTTL = 1
  Configured = TRUE
  MaxSkew = 1
  MaxTime = 1
INVARIANTS TypeOK JtiPassesOnce ProofOfHolder SpentInPlace WithinGrant
SYMMETRY VerificationSymmetry
CHECK_DEADLOCK FALSE
