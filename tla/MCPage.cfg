SPECIFICATION PageFairSpec
CONSTANTS
  r1 = r1
  r2 = r2
  Request <- RequestTwo
INVARIANTS
  PageTypeOK
  SecretGuarded
  ShownIsTrue
PROPERTIES
  InterruptEnds
  ButtonComesBack
CHECK_DEADLOCK FALSE
