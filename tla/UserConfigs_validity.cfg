CONSTANTS
  Units <- MCUnits
  Programs <- Unconfigured
SPECIFICATION Spec
INVARIANT SomeUnitAsWritten
CHECK_DEADLOCK FALSE
