SPECIFICATION FairSpec
CONSTANTS
  Requests <- MCRequests
  Sessions <- MCSessions
  Call <- MCCall
  ClientId <- MCClientId
  Erigon = {TRUE, FALSE}
  MaxNotes = 1
CHECK_DEADLOCK FALSE
INVARIANTS TypeOK ConnectionsReleased
PROPERTIES PromiseKept Drain ClientGoneEnds UpstreamGoneEnds Answered
