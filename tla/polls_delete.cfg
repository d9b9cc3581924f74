SPECIFICATION Spec
CONSTANTS
  author = author
  moderator = moderator
  stranger = stranger
  here = here
  elsewhere = elsewhere
  NoPoll = NoPoll
  NoTime = NoTime
  NoVote = NoVote
  PollIds = {p1}
  Slugs = {s1}
  OptionLists <- MCTwoLists
  MaxOptions = 3
  Tenants <- MCTenants
  Users <- MCAuthorOnly
  Moderators <- MCNoModerators
  TenantOf <- MCAuthorTenant
  Managers = {m1, m2}
  Ballots = {b1}
  Voters = {v1}
  MaxTime = 1
  MaxTrail = 3
SYMMETRY Symmetric
PROPERTIES
  LiveResultsNeverErased
CHECK_DEADLOCK FALSE
