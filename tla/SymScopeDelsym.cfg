CONSTANTS
  MaxSym = 2
  MaxScope = 2
  Names = {Unnamed}
  Unnamed = Unnamed
  StrictBase = TRUE
SPECIFICATION ScopeSpec
INVARIANTS EndScopeAfterDelsym
CHECK_DEADLOCK FALSE
