SPECIFICATION Spec
CONSTANTS
  Chains = {eth, bsc}
  Users = {u}
  Handlers = {h1, h2}
  Costs = {2}
  Sizes = {0, 2}
  Period <- MCPeriod
  Life <- MCLife
  Slots = 3
  MaxLag = 1
  MaxRetries = 1
  MaxJobs = 2
  MaxFaults = 1
  eth = eth
  bsc = bsc
  u = u
  h1 = h1
  h2 = h2
SYMMETRY Symmetry
INVARIANTS TypeOK CountedOnce KeysExpire
