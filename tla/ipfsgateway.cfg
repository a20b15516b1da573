SPECIFICATION Spec
CONSTANTS
  f = f
  d = d
  Handlers = {h1, h2}
  Users = {u, v}
  White = {}
  Cids = {f, d}
  Size <- MCSize
  Inside <- MCInside
  Requests <- MCRequests
  Limit <- MCLimit
  DefaultUnpin = TRUE
  BareCid = TRUE
  MaxRequests = 3
  MaxFaults = 1
INVARIANTS TypeOK  StorageCounted UploadBounded
SYMMETRY Symmetric
CHECK_DEADLOCK FALSE
