\* One handler of thermal-aware routing over three engines, each of which
\* may go down, with any readings; a count above the number of tiers.
SPECIFICATION Spec
CONSTANTS
  Engines = {1, 2, 3}
  NoEngine = 0
  Handlers = {h1}
  Policy = "thermal-aware"
  Tiers <- TiersWithStranger
  CheapTierCount = 7
  CounterWidth = 2
  MaxDepth = 1
  Flaky = {1, 2, 3}
  SystemStates = {"cool", "hot"}
  Window = 0
PROPERTIES ServedWhileOneIsUp HotGoesToCheapTier ShorterQueueWins
