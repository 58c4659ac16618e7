SPECIFICATION Spec
CONSTANTS
  AdminNames = {adm}
  SelfNames = {own}
  Strangers = {}
  query = query
  proxy = proxy
  models = models
  Routes <- AllRoutes
  Bare <- MCSelfGrants
  Implied <- MCImplied
  Grantable <- NoneOrProxy
  SelfGrants <- MCSelfGrants
  Workers = {w1, w2}
  Passes = {}
  Offered <- AllOps
  MaxRequests = 3
  MaxTrouble = 1
  MaxEdits = 0
  LostReplies = FALSE
INVARIANTS
  RequestsAreWhole
CHECK_DEADLOCK FALSE
