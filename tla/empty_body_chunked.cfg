SPECIFICATION FairSpec
CONSTANTS
  Routes <- EmptyRoutes
  MaxResponses = 2
  HighWaterMark = 2
  PeerMayClose = FALSE
INVARIANT KnownLengthIsFixed
CHECK_DEADLOCK FALSE
