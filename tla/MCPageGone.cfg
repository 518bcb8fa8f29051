SPECIFICATION PageFairSpec
CONSTANTS
  r1 = r1
  r2 = r2
  Request <- RequestTwo
INVARIANT
  ClosedRequestAborts
CHECK_DEADLOCK FALSE
