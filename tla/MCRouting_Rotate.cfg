\* Three engines that stay up, two handlers, a counter of two bits: ties of
\* one to three engines, with the counter wrapping among them. 2*3-1 picks.
SPECIFICATION Spec
CONSTANTS
  Engines = {1, 2, 3}
  NoEngine = 0
  Handlers = {h1, h2}
  Policy = "least-queue"
  Tiers <- NoTiers
  CheapTierCount = 1
  CounterWidth = 2
  MaxDepth = 1
  Flaky = {}
  SystemStates = {"unknown"}
  Window = 5
SYMMETRY HandlerSymmetry
INVARIANTS TypeOK TiesRotate
