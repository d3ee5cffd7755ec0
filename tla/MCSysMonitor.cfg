\* Two temperatures and two power modes.
SPECIFICATION Spec
CONSTANTS
  Temps = {cool, hot}
  Modes = {maxn, low}
  NoReading = NoReading
INVARIANT TypeOK
PROPERTIES NothingUndoneLater LoneWriterSettles
