\* One worker and two calls: a live one beside one whose worker has left.
SPECIFICATION EngineSpec
CONSTANTS
  Host = e1
  Engines = {e1}
  Workers = {w1}
  Calls = {c1, c2}
  NoCall = NoCall
  Blank = Blank
INVARIANTS OwnDetections
PROPERTIES MutexIsReleased ImplementsHealthMonitor VerdictWasTrue DeadIsDetected RecoveryIsDetected
