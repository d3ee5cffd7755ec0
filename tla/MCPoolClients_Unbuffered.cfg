\* The flags at their lower clamps: -queue-size -1 is an unbuffered channel,
\* -concurrency 0 is one worker. Two pools side by side.
CONSTANTS
  e1 = e1
  e2 = e2
  r1 = r1
  r2 = r2
  r3 = r3
  r4 = r4
  NoRequest = NoRequest
  NoOutcome = NoOutcome
  NoEngine = NoEngine
  Engines <- TwoEngines
  Requests <- ThreeRequests
  Outcomes <- OneOutcome
  QueueSize <- NegativeQueueSize
  Concurrency = 0
SPECIFICATION Spec
INVARIANTS
  StaysOnTarget
PROPERTIES
  RejectedMeansBusy
  ImplementsContract
