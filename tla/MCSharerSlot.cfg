SPECIFICATION FairSpec
CONSTANTS
  a1 = a1
  a2 = a2
  x1 = x1
  Authentic <- AuthenticTwo
  Conn <- AuthenticTwo
  MaxConcurrentHandshakes = 1
PROPERTY
  SlotReleased
CHECK_DEADLOCK FALSE
