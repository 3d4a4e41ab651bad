\* A call with two further requests, two losses or one of each.
SPECIFICATION Spec
CONSTANTS
  Patient = TRUE
  Refresh = FALSE
  LateTimers = FALSE
  Budget = 2
INVARIANTS
  TypeOK
  MediaAgree
  OffersSettle
  CallsEndTogether
  InviteTsxAlive
  SdpAlive
PROPERTIES
  StaysDisconnected
\* A call ends.
CHECK_DEADLOCK FALSE
