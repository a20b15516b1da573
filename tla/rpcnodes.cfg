SPECIFICATION FairSpec
CONSTANTS
  Last = 2
  Endpoints <- MCEndpoints
  Tron = FALSE
  MaxBehind = 1
  MaxHead = 3
INVARIANTS TypeOK SomeoneServes LaggardsAreOut SyncedAreIn FirstSteady
PROPERTIES Recovers
