SPECIFICATION Spec
CONSTANTS
  c1 = c1  c2 = c2  anyQuery = anyQuery  reset = reset  select = select  drop = drop
  Nothing = Nothing
  Calls = {c1, c2}
  Capabilities = {anyQuery, reset, select, drop}
  Grants = {anyQuery, reset}
  AgentCaps = {select}
  QueryCap = select
  DropCap = drop
  Within <- GrantsSelect
  Matches <- Reflexive
  MaxConcurrent = 5
  MaxEffort = 8
  AutoWeight = 3
  AutoScenario = "happy"
INVARIANTS TypeOK NothingMissing VerdictsAsAdvertised ArtefactsAgree NextStepOffered OverreachRefused AutoDelivers
PROPERTIES PermitCoherent
SYMMETRY CallSymmetry
CHECK_DEADLOCK FALSE
