CONSTANTS
  Letters = {"a"}
  MaxTopic = 5
  MaxWildcard = 4
SPECIFICATION Spec
INVARIANTS
  RegexIsLevelwise
  NameMatchesItself
CHECK_DEADLOCK FALSE
