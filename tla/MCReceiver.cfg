SPECIFICATION ReceiverFairSpec
CONSTANTS
  g1 = g1
  g2 = g2
  i1 = i1
  Genuine <- GenuineTwo
  Announcer <- AnnouncerThree
  MAX_ANNOUNCERS = 2
INVARIANTS
  ReceiverTypeOK
  AttemptsBounded
  VerdictHonest
PROPERTIES
  VerdictFinal
  CancelIsImmediate
  EverythingSettles
CHECK_DEADLOCK FALSE
