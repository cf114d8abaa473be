CONSTANTS
  Values = {0, 1}
  Units = {1, 2}
  MinGap = 3
  memoryConfigDecisionBit = 20
  Copies <- CopiesLarge
SPECIFICATION Spec
INVARIANT StartsServed RunsAsTold
PROPERTY EndMeansDone CopyReturnsWhenSent CallsReturn
