CONSTANTS
  A = A
  B = B
  C = C
  p1 = p1
  p2 = p2
  p3 = p3
  NULL = NULL
  ID <- MCID
  FD <- MCFD
  Client <- MCClient
  ListenFd <- MCListenFd
  Name <- MCName
  Published <- MCPublished
  Matches <- matches_wildcard_path
  MaxEntries = 2
SPECIFICATION Spec
SYMMETRY MCSymmetry
PROPERTY SentToAllSubscribers
CHECK_DEADLOCK FALSE
