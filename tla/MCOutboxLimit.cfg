SPECIFICATION Spec
CONSTANTS
  Workers = {w1}
  Events = {e1}
  NoEvent = NoEvent
  MaxAttempts = 2
  StaleAfter = 1
  Base = 1
  Cap = 2
  MaxCrashes = 1
INVARIANT AttemptsWithinLimit
