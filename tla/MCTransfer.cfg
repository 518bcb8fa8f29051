SPECIFICATION TransferFairSpec
CONSTANTS
  l = l
  a1 = a1
  g1 = g1
  Link = l
  Conn <- ConnTwo
  Authentic <- ConnTwo
  MaxConcurrentHandshakes = 2
  Announcer <- AnnouncerTwo
  Genuine <- AnnouncerTwo
  MAX_ANNOUNCERS = 2
  SharePass = "secret"
  ReceivePass = "secret"
  RoomCode = "room"
INVARIANTS
  Agreement
  GrantDelivers
PROPERTIES
  ImplementsHandover
  LeftAlone
CHECK_DEADLOCK FALSE
