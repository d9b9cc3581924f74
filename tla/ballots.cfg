SPECIFICATION MCSpec
CONSTANTS
  home = home
  NoBucket = NoBucket
  NoCookie = NoCookie
  NoAccount = NoAccount
  NoVote = NoVote
  Idle = Idle
  Networks = {home, office}
  Limit = 2
  Window = 2
  EvictFrom = 2
  MaxTime = 4
  ClockLag = 1
  Browsers = {phone, laptop}
  Accounts = {ada}
  Tabs = {i1, i2}
  NetworkOf <- MCNetworkOf
  Tokens = {t1, t2}
  Options = {"yes", "no"}
SYMMETRY Symmetric
INVARIANTS
  TypeOK
  RateBounded
  OneChoicePerBrowser
  PageShowsLatestChoice
PROPERTIES
  EvictionSparesRunningWindows
CHECK_DEADLOCK FALSE
