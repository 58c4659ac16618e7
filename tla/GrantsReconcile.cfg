SPECIFICATION FairSpec
CONSTANTS
  AdminNames = {adm}
  SelfNames = {own}
  Strangers = {ext}
  query = query
  proxy = proxy
  models = models
  Routes <- TwoRoutes
  Bare <- MCSelfGrants
  Implied <- MCImplied
  Grantable <- JustAll
  SelfGrants <- MCSelfGrants
  Workers = {w1, w2}
  Passes = {p1}
  Offered = {"create", "create_my", "renew", "update", "delete"}
  MaxRequests = 2
  MaxTrouble = 1
  MaxEdits = 1
  LostReplies = TRUE
INVARIANTS WhitelistsStaySafe
PROPERTIES PassIsExact WhitelistsConverge
CHECK_DEADLOCK FALSE
