SPECIFICATION FairSpec
CONSTANTS
  r1 = r1  r2 = r2  r3 = r3  n1 = n1  n2 = n2  k1 = k1
  k2 = k2  alice = alice  agent1 = agent1  agent2 = agent2  read = read  write = write
  quota = quota  as2 = as2  rs = rs  c1 = c1  app = app  other = other
  v1 = v1  v2 = v2  uri = uri  AS = AS  Blank = Blank  NoDA = NoDA
  NoKey = NoKey  NoOne = NoOne  NoCap = NoCap  NoPA = NoPA  NoStatus = NoStatus  NoToken = NoToken
  NoCode = NoCode  NoClient = NoClient  NoLife = NoLife  NoVerifier = NoVerifier  NoCall = NoCall
  Requests = {r1, r2}
  Nonces = {n1, n2}
  Keys = {k1}
  Principals = {alice}
  Agents = {agent1}
  Capabilities = {read, write}
  Constraints = {quota}
  Within <- Reflexive
  Matches <- Reflexive
  Routable = {read, write}
  Audiences = {AS, as2, rs}
  StatusURIs = {uri}
  Delegations <- RaceDelegations
  MaxLifetime = 3
  Flows = {"bearer", "short", "code"}
  Codes = {c1}
  Clients = {app, other}
  Verifiers = {v1}
  SubjectTokens = {}
  Lifetimes = {1}
  TargetAudiences <- ToResource
  Revocable = {n1}
  LightGrants = {}
  MetWithoutContext = {quota}
  CodeTTL = 1
  ExchangeLifetime = 1
  ActorSkew = 1
  MaxTime = 1
  MaxLag = 1
INVARIANTS SingleUse CodeSpentOnce CodeDelivers Accounts
PROPERTIES ImplementsGrantsFairly EveryCallAnswered
CHECK_DEADLOCK FALSE
