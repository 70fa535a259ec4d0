SPECIFICATION FairSpec
CONSTANTS
  Routes <- AllRoutes
  MaxResponses = 2
  HighWaterMark = 2
  PeerMayClose = TRUE
INVARIANTS TypeOK ClientFollows ResponseComplete HeadersArrive
PROPERTIES SendsResolve RawDrains
CHECK_DEADLOCK FALSE
