CONSTANTS
  Units <- MCUnits
  Programs <- MCPrograms
SPECIFICATION Spec
INVARIANT AddressesAsWritten OneAssignmentEach ReadsAtMostTheSpan SameNode
CHECK_DEADLOCK FALSE
