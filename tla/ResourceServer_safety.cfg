SPECIFICATION ClosedSpec
CONSTANTS
  r1 = r1  n1 = n1  n2 = n2  k1 = k1  k2 = k2  alice = alice
  agent1 = agent1  read = read  write = write  quota = quota  rs = rs  uri = uri
  q1 = q1  q2 = q2  p1 = p1  p2 = p2  post = post  get = get
  AS = AS  Blank = Blank  NoDA = NoDA  NoKey = NoKey  NoOne = NoOne  NoCap = NoCap
  NoPA = NoPA  NoStatus = NoStatus  NoProof = NoProof  NoAth = NoAth  NoCheck = NoCheck
  Requests = {r1}
  Nonces = {n1, n2}
  Keys = {k1, k2}
  Principals = {alice}
  Agents = {agent1}
  Capabilities = {read, write}
  Constraints = {quota}
  Within <- Reflexive
  Matches <- Reflexive
  Routable = {read, write}
  Audiences = {AS, rs}
  StatusURIs = {uri}
  MaxLifetime = 3
  Checks = {q1, q2}
  Targets = {post}
  Window = 1
  MaxCheckLag = 0
  PA <- AlicePA
  HasChecker = TRUE
  Shallow = TRUE
  Delegations <- AllDelegations
  Proofs <- AllProofs
  ProofIds = {p1, p2}
  Requested = {read}
  Contexts <- AnyContext
  MaxTime = 2
INVARIANTS RSTypeOK ProofOnce TokenReusable DelegationHonoured
SYMMETRY CheckSymmetry
CHECK_DEADLOCK FALSE
