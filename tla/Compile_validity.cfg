CONSTANTS
  BasicUnits <- MCBasicUnits
  Programs <- LateSources
  Families <- SharedAdder
  Parts = {"both"}
SPECIFICATION PartsSpec
CHECK_DEADLOCK FALSE
INVARIANTS SomeCircuitInTime
