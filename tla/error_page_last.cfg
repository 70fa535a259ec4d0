SPECIFICATION FairSpec
CONSTANTS
  Streams <- MixedStreams
  Readers = {"none"}
  Outcomes = {"respond"}
  PeerMayClose = FALSE
  MaxRequests = 3
INVARIANT ErrorPageIsLast
CHECK_DEADLOCK FALSE
