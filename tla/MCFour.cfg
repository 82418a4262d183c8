\* Four requests of one thread that create issues: up to two proposals and two
\* replies at once, and a history that is trimmed.
CONSTANTS
  r1 = r1
  r2 = r2
  r3 = r3
  r4 = r4
  t1 = t1
  o1 = o1
  Requests = {r1, r2, r3, r4}
  Threads = {t1}
  Orgs = {o1}
  OrgOf <- MCOrgOf
  None = None
  Intents <- CreateOnly
  TTL = 1
  MaxStored = 4
  MaxTurns = 2
  MaxClock = 0
  MaxBoots = 0
  Quota = 0
  TokenCosts = {}
  MaxTokens = 0
SPECIFICATION Spec
SYMMETRY Symmetry
INVARIANTS TypeOK IndInv ExecutedAtMostOnce HistoryInWholeTurns TranscriptInv
PROPERTY ImplementsGate
CHECK_DEADLOCK FALSE
