CONSTANTS
  Accounts = {a}
  Handlers = {h1, h2}
  Costs = {1, 2}
  SecQuotas = {2}
  DayQuotas = {2, 3}
  Whitelists = {{}, {a}}
  SEC = 2
  DAY = 4
  DayTTL = 6
  Slots = 3
  MaxLag = 1
  MaxRetries = 1
  MaxAsked = 3
  Downgrades = FALSE
  Faults = FALSE
SPECIFICATION SpecRecent
INVARIANTS TypeOK ChargedWithinDemand DayKeyExpires SlidingSecond
SYMMETRY Symmetry
PROPERTIES SecKeyNotRenewed
