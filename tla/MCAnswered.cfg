\* Two requests of one thread whose LLM calls reach the quota, a TTL that passes, and a restart.
CONSTANTS
  r1 = r1
  r2 = r2
  t1 = t1
  o1 = o1
  Requests = {r1, r2}
  Threads = {t1}
  Orgs = {o1}
  OrgOf <- MCOrgOf
  None = None
  Intents <- FewIntents
  TTL = 0
  MaxStored = 4
  MaxTurns = 1
  MaxClock = 1
  MaxBoots = 1
  Quota = 1
  TokenCosts = {1}
  MaxTokens = 1
SPECIFICATION FairSpec
INVARIANTS ExecutedAsPreviewed PendingIsLatestPrompt
PROPERTIES EveryRequestAnswered ImplementsMetering
CHECK_DEADLOCK FALSE
