CONSTANTS
  MaxSym = 4
  MaxScope = 3
  Names = {x, y}
  Unnamed = Unnamed
  StrictBase = FALSE
SPECIFICATION ScopeSpec
INVARIANTS ScopeTypeOK ScopesConsistent MembersConsistent ActiveInOpenScope UniqueNames
PROPERTIES SymbolScopeFixed ScopeIsolation
CHECK_DEADLOCK FALSE
