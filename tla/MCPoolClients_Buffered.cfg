\* Two workers and a queue of one: three requests fill the pool, the fourth
\* is refused.
CONSTANTS
  e1 = e1
  e2 = e2
  r1 = r1
  r2 = r2
  r3 = r3
  r4 = r4
  NoRequest = NoRequest
  NoOutcome = NoOutcome
  NoEngine = NoEngine
  Engines <- OneEngine
  Requests <- FourRequests
  Outcomes <- OneOutcome
  QueueSize = 1
  Concurrency = 2
SPECIFICATION Spec
INVARIANTS
  ExactlyOnce
  SendNeverBlocks
  NoLostWakeup
  CloseDrains
  BoundedLoad
PROPERTIES
  AcceptedIsServed
  CloseReturns
  ImplementsContract
