CONSTANTS
  Accounts = {a}
  Handlers = {h1, h2}
  Costs = {1}
  SecQuotas = {2}
  DayQuotas = {1}
  Whitelists = {{}, {a}}
  SEC = 1
  DAY = 2
  DayTTL = 3
  Slots = 3
  MaxLag = 1
  MaxRetries = 1
  MaxAsked = 2
  Downgrades = FALSE
  Faults = TRUE
SPECIFICATION Spec
INVARIANTS DayKeyExpires
