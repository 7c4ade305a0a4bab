SPECIFICATION Spec
CONSTANTS
  r1 = r1  r2 = r2  r3 = r3  n1 = n1  n2 = n2  k1 = k1
  k2 = k2  alice = alice  agent1 = agent1  agent2 = agent2  read = read  write = write
  quota = quota  as2 = as2  rs = rs  c1 = c1  app = app  other = other
  v1 = v1  v2 = v2  uri = uri  AS = AS  Blank = Blank  NoDA = NoDA
  NoKey = NoKey  NoOne = NoOne  NoCap = NoCap  NoPA = NoPA  NoStatus = NoStatus  NoToken = NoToken
  NoCode = NoCode  NoClient = NoClient  NoLife = NoLife  NoVerifier = NoVerifier  NoCall = NoCall
  Requests = {r1, r2}
  Nonces = {n1, n2}
  Keys = {k1, k2}
  Principals = {alice}
  Agents = {agent1, agent2}
  Capabilities = {read, write}
  Constraints = {quota}
  Within <- Reflexive
  Matches <- Reflexive
  Routable = {read, write}
  Audiences = {AS, as2, rs, Blank}
  StatusURIs = {uri}
  Delegations <- CodeDelegations
  MaxLifetime = 3
  Flows = {"short", "code", "light", "exchange"}
  Codes = {c1}
  Clients = {app}
  Verifiers = {v1}
  SubjectTokens <- Credentials
  Lifetimes = {0, 2}
  TargetAudiences <- ToAny
  Revocable = {}
  LightGrants <- Consents
  MetWithoutContext = {quota}
  CodeTTL = 1
  ExchangeLifetime = 1
  ActorSkew = 1
  MaxTime = 2
  MaxLag = 0
INVARIANTS TypeOK IssuedIsAcceptable AuthorityTraced
SYMMETRY RequestSymmetry
CHECK_DEADLOCK FALSE
