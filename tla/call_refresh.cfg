\* The session timer refreshes the call; timers D and K fire when they do.
SPECIFICATION Spec
CONSTANTS
  Patient = TRUE
  Refresh = TRUE
  LateTimers = TRUE
  Budget = 2
PROPERTIES
  OwnOfferOnly
CHECK_DEADLOCK FALSE
