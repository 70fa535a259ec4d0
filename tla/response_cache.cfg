SPECIFICATION CacheSpec
CONSTANTS
  none = none
  NoPart = none
  Routes <- MCRoutes
  RequestOf <- MCRequestOf
  UniqueSearch = TRUE
  UniqueHash = FALSE
  TTL = 1
  MaxResponses = 2
  HighWaterMark = 1
  PeerMayClose = TRUE
INVARIANTS CacheTypeOK EntriesWhole HitsComplete
PROPERTIES HitsMatch LivesItsTime EntriesEnd
CHECK_DEADLOCK FALSE
