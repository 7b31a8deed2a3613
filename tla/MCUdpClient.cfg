CONSTANTS
  a = a
  b = b
  Word = Word
  Undecodable = Undecodable
  NULL = NULL
  Payload <- MCPayload
  CommandLine <- MCCommandLine
  Bound = 3
SPECIFICATION FairSpec
INVARIANTS
  TypeOK
  AllOnceInOrder
  RandomCount
  ManualFollowsChoices
  AtMostOneUnreported
PROPERTIES
  Terminates
CHECK_DEADLOCK FALSE
