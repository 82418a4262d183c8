\* Three requests of two orgs, LLM calls of one or two tokens, a quota one
\* call can reach and restarts at any time.
CONSTANTS
  r1 = r1
  r2 = r2
  r3 = r3
  o1 = o1
  o2 = o2
  Requests = {r1, r2, r3}
  Orgs = {o1, o2}
  None = None
  Quota = 2
  TokenCosts = {1, 2}
  MaxTokens = 3
SPECIFICATION Spec
SYMMETRY Symmetry
CHECK_DEADLOCK FALSE
INVARIANTS TypeOK NeverOvercharged IndInv
