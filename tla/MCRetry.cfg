\* A proposal, its confirmation that fails, and a second yes.
CONSTANTS
  r1 = r1
  r2 = r2
  r3 = r3
  t1 = t1
  o1 = o1
  Requests = {r1, r2, r3}
  Threads = {t1}
  Orgs = {o1}
  OrgOf <- MCOrgOf
  None = None
  Intents <- FewIntents
  TTL = 1
  MaxStored = 6
  MaxTurns = 1
  MaxClock = 0
  MaxBoots = 0
  Quota = 0
  TokenCosts = {}
  MaxTokens = 0
SPECIFICATION Spec
PROPERTY RetriedConfirmationReusesKey
CHECK_DEADLOCK FALSE
