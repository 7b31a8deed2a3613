CONSTANTS
  A = A
  B = B
  C = C
  p1 = p1
  p2 = p2
  p3 = p3
  p4 = p4
  NULL = NULL
  ID <- MCID
  FD <- MCFD
  Client <- MCClient
  ListenFd <- MCListenFd
SPECIFICATION Spec
SYMMETRY MCSymmetry
INVARIANTS
  TypeOK
  MapsAgree
  WatchIsSound
  OneSessionPerId
PROPERTIES
  OfflineIsFinal
  ImplementsSessions
CHECK_DEADLOCK FALSE
