CONSTANTS
  MaxBlocks = 4
  Names = {"a", "last", "undefs"}
SPECIFICATION FSpec
INVARIANTS FTypeOK TreeConsistent ProgramIsTree DownwardSearch UpwardSearch FullpathFinds MacroCoversScope
PROPERTIES LastStaysLast OrderKept
CHECK_DEADLOCK FALSE
