SPECIFICATION FairSpec
CONSTANTS
  Streams <- PostStreams
  Readers = {"first"}
  Outcomes = {"respond"}
  PeerMayClose = FALSE
  MaxRequests = 3
INVARIANT WellFormedSurvives
CHECK_DEADLOCK FALSE
