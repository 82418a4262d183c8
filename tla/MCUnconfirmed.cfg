\* One read request.
CONSTANTS
  r1 = r1
  t1 = t1
  o1 = o1
  Requests = {r1}
  Threads = {t1}
  Orgs = {o1}
  OrgOf <- MCOrgOf
  None = None
  Intents <- AllIntents
  TTL = 1
  MaxStored = 4
  MaxTurns = 1
  MaxClock = 0
  MaxBoots = 0
  Quota = 0
  TokenCosts = {}
  MaxTokens = 0
SPECIFICATION Spec
INVARIANT WritesAreConfirmed
CHECK_DEADLOCK FALSE
