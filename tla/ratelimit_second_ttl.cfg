CONSTANTS
  Accounts = {a}
  Handlers = {h1}
  Costs = {1, 2}
  SecQuotas = {2}
  DayQuotas = {2}
  Whitelists = {{}}
  SEC = 2
  DAY = 4
  DayTTL = 6
  Slots = 3
  MaxLag = 1
  MaxRetries = 0
  MaxAsked = 2
  Downgrades = FALSE
  Faults = FALSE
SPECIFICATION Spec
INVARIANTS SecKeyOneSecond
