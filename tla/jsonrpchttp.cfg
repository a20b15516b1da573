SPECIFICATION Spec
CONSTANTS
  Handlers = {h1, h2}
  Accounts = {a, w}
  White = {w}
  Questions <- MCQuestions
  Cacheable <- MCCacheable
  Erigon <- MCErigon
  Black <- MCBlack
  HasErigon = TRUE
  JustWhite <- MCJustWhite
  Bodies <- MCBodies
  Quota = 3
  CacheTime = 2
  Latency = 1
  MaxRequests = 3
INVARIANTS TypeOK OwnAnswer Fresh Metered ErigonCounted Restricted
SYMMETRY Symmetric
