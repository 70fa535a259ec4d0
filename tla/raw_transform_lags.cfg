SPECIFICATION FairSpec
CONSTANTS
  Routes <- CachedRoutes
  MaxResponses = 2
  HighWaterMark = 2
  PeerMayClose = FALSE
INVARIANT WrittenWhenResolved
CHECK_DEADLOCK FALSE
