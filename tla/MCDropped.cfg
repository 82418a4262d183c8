\* Creates of issues, every lookup failing or not.
CONSTANTS
  ann = ann
  anna = anna
  bob = bob
  one = one
  ten = ten
  u1 = u1
  u2 = u2
  s1 = s1
  s10 = s10
  Null = Null
  Names <- MCNames
  Ids <- MCIds
  Within <- MCWithin
  Messages <- CreateIssues
  Members0 <- MCMembers
  Sprints0 <- MCSprints
  Issues0 <- MCIssues
  MaxChanges = 0
SPECIFICATION Spec
INVARIANT NothingDropped
CHECK_DEADLOCK FALSE
