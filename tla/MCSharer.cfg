SPECIFICATION FairSpec
CONSTANTS
  a1 = a1
  a2 = a2
  x1 = x1
  Authentic <- AuthenticTwo
  Conn <- ConnThree
  MaxConcurrentHandshakes = 2
INVARIANTS
  TypeOK
  AtMostOneServed
  NothingSentAfterFailure
  SlotsAccounted
  KeepsWaiting
  TimerTracksTransfer
PROPERTIES
  RefusalHarmless
  ImplementsOneShot
  WindowCloses
  StalledPeerDropped
CHECK_DEADLOCK FALSE
