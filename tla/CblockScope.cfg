CONSTANTS
  MaxBlocks = 4
  Names = {"a", "body", "last", "undefs"}
SPECIFICATION FSpec
INVARIANTS DefinesAtScope
CHECK_DEADLOCK FALSE
