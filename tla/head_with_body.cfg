SPECIFICATION FairSpec
CONSTANTS
  Routes <- HeadRoutes
  MaxResponses = 2
  HighWaterMark = 2
  PeerMayClose = FALSE
INVARIANT HeadHasNoBody
CHECK_DEADLOCK FALSE
