SPECIFICATION ShareEnvFairSpec
CONSTANTS
  a1 = a1
  x1 = x1
  Authentic <- AuthenticOne
  Conn <- ConnTwo
  MaxConcurrentHandshakes = 2
INVARIANT
  NoTimerOutlives
CHECK_DEADLOCK FALSE
