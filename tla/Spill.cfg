CONSTANTS
  MaxSym = 3
  MaxScope = 3
  Names = {Unnamed}
  Unnamed = Unnamed
  StrictBase = TRUE
  Shapes <- MCShapes
SPECIFICATION MCSpec
INVARIANTS TypeOK Contiguous RegionFitsSymbol FreshCopyIntact LocatedIsActive
PROPERTIES RegionsStay NoNeedlessGrowth FreshHasRegion ValueKept
CHECK_DEADLOCK FALSE
