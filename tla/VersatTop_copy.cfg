CONSTANTS
  Values = {0}
  Units = {1}
  MinGap = 3
  memoryConfigDecisionBit = 6
  Copies <- CopiesSmall
SPECIFICATION Spec
PROPERTY CopiesWork
