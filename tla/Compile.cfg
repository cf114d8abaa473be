CONSTANTS
  BasicUnits <- MCBasicUnits
  Programs <- MCPrograms
  Families <- MCFamilies
  Parts = {"compile", "merge"}
SPECIFICATION PartsSpec
CHECK_DEADLOCK FALSE
INVARIANTS BuffersKeepTheGraph DataArrivesTogether NothingLeftToDelay StructsMatchTheRegisters OneRegisterPerSharedWire StatesReadWhereDriven AccessReachesItsMemory MergedIsEachModule NoBufferTwice EachModuleInTime
