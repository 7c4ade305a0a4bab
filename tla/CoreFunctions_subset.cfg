SPECIFICATION Spec
CONSTANTS
  noOid = noOid  noParams = noParams  NoCall = NoCall
  sha256 = "sha256"
  md5 = "md5"
  sha512 = "sha512"
  NoOid = noOid
  NoParams = noParams
  Sha256 = "sha256"
  HashAlgs <- SomeHashAlgs
  OidAIC = "aic"
  Alternations = {"{a,b}", "{a.b,c}"}
  Classes = {"[a-b]", "[--9]", "[b-aa]"}
  Refused = {"@", "[b-aa]"}
  Words <- WordsOf
  Depth <- DepthOf
  Bits = 3
  Day = 5
  Patterns <- SomePatterns
  Literals <- SomeLiterals
  Values <- SomeValues
  GrantLists <- SomeGrants
  AgentCaps <- SomeAgents
  Cidrs <- SomeCidrs
  Addresses <- SomeAddresses
  Windows <- SomeWindows
  Lists <- SomeLists
  Contexts <- SomeContexts
  Sizes <- SomeSizes
  OIDs <- SomeOIDs
  Octets = {0, 1, 2, 48, 129, 130, 131, 200}
  AICs <- SomeAICs
  SignedAICs <- FewAICs
  Overrides <- SomeOverrides
INVARIANTS GrantCoversAgent
CHECK_DEADLOCK FALSE
