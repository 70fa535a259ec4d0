SPECIFICATION FairSpec
CONSTANTS
  Routers <- MCRouters
  Root = "root"
  Callbacks = {"f", "g"}
  Vhosts = {"host"}
  HostOf <- MCHostOf
  RouterOf <- MCRouterOf
  Words = {"a", "b"}
  Params = {":x", ":y", ":__x__"}
  Reserved = {":__x__"}
  AnyMethod = AnyMethod
  NoRemainder = NoRemainder
  Registrations <- MCRegistrations
  Requests <- MCRequests
  MaxRegistrations = 3
  MaxRequests = 1
INVARIANTS TypeOK CallsInOrder CallsOnlyMatching
PROPERTIES SeesNewRoutes RequestsEnd
CHECK_DEADLOCK FALSE
