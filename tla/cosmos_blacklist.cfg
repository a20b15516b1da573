SPECIFICATION Spec
CONSTANTS
  Chain = "cosmos"
  Handlers = {h1, h2}
  Accounts = {a}
  White = {}
  Questions <- ChainQuestions
  Cacheable <- tendermintCacheableMethods
  Erigon <- ChainErigon
  Black <- ChainBlack
  JustWhite <- ChainJustWhite
  HasErigon = FALSE
  Bodies <- ChainBodies
  Quota = 3
  CacheTime = 2
  Latency = 1
  MaxRequests = 2
INVARIANTS DialsRefused
