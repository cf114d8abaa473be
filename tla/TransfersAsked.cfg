CONSTANTS
  STROBE_W = 4
  AXI_LEN_W = 1
  LEN_W = 6
  Page = 16
  None = None
  Reads <- UnalignedLong
  Writes <- AlignedWrites
SPECIFICATION AskedSpec
INVARIANT SomeTransferAsAsked
