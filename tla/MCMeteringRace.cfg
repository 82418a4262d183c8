\* Two requests of one org whose adds overlap.
CONSTANTS
  r1 = r1
  r2 = r2
  o1 = o1
  Requests = {r1, r2}
  Orgs = {o1}
  None = None
  Quota = 0
  TokenCosts = {1, 2}
  MaxTokens = 2
SPECIFICATION Spec
PROPERTY Cumulative
