CONSTANTS
  u1 = u1
  p1 = p1
  i1 = i1
  l1 = l1
  a = a
  b = b
  s1 = s1
  e1 = e1
  t1 = t1
  None = None
  Users = {u1}
  Projects = {p1}
  Issues = {i1}
  Sprints = {}
  Labels = {l1}
  Texts = {a, b}
  Home <- MCHome
  Reporter <- MCReporter
  LabelsOf <- MCLabelsOf
  Blocks <- MCLinks
  BlockedBy <- MCLinks
  Recent = {}
  Alike <- MCAlike
  Embeds = TRUE
  Syncs = {s1}
  Events = {e1}
  Tools = {t1}
  Roster0 <- MCRoster
  Rows0 <- MCRows
  MaxChanges = 2
SPECIFICATION FairSpec
INVARIANTS
  TypeOK
  IndInv
  FreshIsExact
  SuggestsMembers
PROPERTIES
  ImplementsMirror
  OnlyOverlapBuries
  SyncsRepair
