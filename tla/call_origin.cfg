\* Two re-INVITEs are enough for an answer to look at a pool that was reset.
SPECIFICATION Spec
CONSTANTS
  Patient = TRUE
  Refresh = FALSE
  LateTimers = FALSE
  Budget = 2
PROPERTIES
  OriginAlive
CHECK_DEADLOCK FALSE
