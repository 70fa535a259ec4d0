SPECIFICATION FairSpec
CONSTANTS
  Streams <- MixedStreams
  Readers = {"none", "first", "later"}
  Outcomes = {"respond", "pass", "throw"}
  PeerMayClose = TRUE
  MaxRequests = 3
INVARIANTS TypeOK OneActive IInv OwnData DispatchInOrder ResponsesInOrder
PROPERTIES InputInOrder PipelineSpec ErrorsDestroy BodiesComplete
CHECK_DEADLOCK FALSE
