SPECIFICATION FairSpec
CONSTANTS
  Streams <- WellFormedStreams
  Readers = {"none"}
  Outcomes = {"respond", "pass"}
  PeerMayClose = FALSE
  MaxRequests = 3
INVARIANT WellFormedSurvives
PROPERTY AllServed
CHECK_DEADLOCK FALSE
