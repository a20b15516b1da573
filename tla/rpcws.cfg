SPECIFICATION Spec
CONSTANTS
  MaxChunks = 3
  Room = 2
CHECK_DEADLOCK FALSE
INVARIANTS TypeOK NothingLeftOpen
PROPERTIES ClientGoneReleases UpstreamGoneReleases Delivered
