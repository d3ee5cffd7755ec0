\* Two engines whose ties recur.
SPECIFICATION TSpec
CONSTANTS
  Engines = {1, 2}
  NoEngine = 0
  Handlers = {h1}
  Policy = "least-queue"
  Tiers <- NoTiers
  CheapTierCount = 1
  CounterWidth = 2
  MaxDepth = 1
  Flaky = {}
  SystemStates = {"unknown"}
  Window = 1
PROPERTY TiesAreFair
