SPECIFICATION Spec
CONSTANTS
  AdminNames = {}
  SelfNames = {own}
  Strangers = {}
  query = query
  proxy = proxy
  models = models
  Routes <- TwoRoutes
  Bare <- MCSelfGrants
  Implied <- MCImplied
  Grantable <- NoneOrProxy
  SelfGrants <- MCSelfGrants
  Workers = {w1, w2}
  Passes = {p1}
  Offered = {"create_my"}
  MaxRequests = 2
  MaxTrouble = 1
  MaxEdits = 0
  LostReplies = FALSE
INVARIANT RowHasItsConsumer

CHECK_DEADLOCK FALSE
