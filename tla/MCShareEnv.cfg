SPECIFICATION ShareEnvFairSpec
CONSTANTS
  a1 = a1
  x1 = x1
  Authentic <- AuthenticOne
  Conn <- ConnTwo
  MaxConcurrentHandshakes = 2
INVARIANTS
  ShareEnvTypeOK
  NothingOutlives
  AbortStopsSharing
  OutcomeHonest
PROPERTIES
  SilentAfterSettling
  AnnouncedWhileServing
  ShareEnds
CHECK_DEADLOCK FALSE
