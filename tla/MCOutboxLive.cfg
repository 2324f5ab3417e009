SPECIFICATION FairSpec
CONSTANTS
  Workers = {w1, w2}
  Events = {e1}
  NoEvent = NoEvent
  MaxAttempts = 3
  StaleAfter = 2
  Base = 1
  Cap = 3
  MaxCrashes = 2
PROPERTY EventuallySettled
