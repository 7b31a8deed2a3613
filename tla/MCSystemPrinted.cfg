CONSTANTS
  s1 = s1
  s2 = s2
  s3 = s3
  NULL = NULL
  Process <- MCProcess
  Line <- MCLine
  ID <- MCID
  FD <- MCFD
  Client <- MCClient
  ListenFd = 4
  Name <- MCName
  Matches <- SameName
  Published <- MCPublished
  MaxEntries = 4
  ServerLine = {"stop", "other"}
  Scenario <- MCScenario
SPECIFICATION Spec
PROPERTY ReceivedIsPrinted
CHECK_DEADLOCK FALSE
