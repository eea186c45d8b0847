CONSTANTS
  MaxSym = 2
  MaxScope = 2
  Names = {x, y}
  Unnamed = Unnamed
  StrictBase = FALSE
SPECIFICATION ScopeSpec
INVARIANTS EndScopeFindsPsyms
CHECK_DEADLOCK FALSE
