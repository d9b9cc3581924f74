SPECIFICATION Spec
CONSTANTS
  author = author
  moderator = moderator
  stranger = stranger
  here = here
  elsewhere = elsewhere
  NoPoll = NoPoll
  NoTime = NoTime
  NoVote = NoVote
  PollIds = {p1}
  Slugs = {s1}
  OptionLists <- MCOneList
  MaxOptions = 3
  Tenants <- MCTenants
  Users <- MCUsers
  Moderators <- MCModerators
  TenantOf <- MCTenantOf
  Managers = {m1, m2}
  Ballots = {b1}
  Voters = {v1}
  MaxTime = 1
  MaxTrail = 3
SYMMETRY Symmetric
INVARIANTS
  TypeOK
  VotesBelongToPolls
  AuditTrailFaithful
  MutationsAuthorized
PROPERTIES
  TallyMovesOnlyWhilePublished
CHECK_DEADLOCK FALSE
