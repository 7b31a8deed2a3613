CONSTANTS
  Base = 5
  TOPIC_MAX_SIZE = 2
  WORD = 2
  HALF = 2
  Precision = 3
  BUF_LEN = 9
  MaxLen = 7
SPECIFICATION Spec
INVARIANTS
  ZeroHasNoSign
CHECK_DEADLOCK FALSE
