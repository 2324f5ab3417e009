SPECIFICATION Spec
CONSTANTS
  Workers = {w1, w2}
  Events = {e1, e2}
  NoEvent = NoEvent
  MaxAttempts = 3
  StaleAfter = 1
  Base = 1
  Cap = 1
  MaxCrashes = 1
SYMMETRY Symmetry
INVARIANTS TypeOK PublishedWasSent GivenUpOnlyWhenExhausted AttemptsBounded
