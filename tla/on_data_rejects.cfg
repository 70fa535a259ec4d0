SPECIFICATION FairSpec
CONSTANTS
  Streams <- MixedStreams
  Readers = {"none"}
  Outcomes = {"respond"}
  PeerMayClose = TRUE
  MaxRequests = 3
INVARIANT OnDataResolves
CHECK_DEADLOCK FALSE
