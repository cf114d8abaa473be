CONSTANTS
  STROBE_W = 4
  AXI_LEN_W = 8
  LEN_W = 20
  Page = 4096
  None = None
  Reads <- LongReads
  Writes <- LongWrites
SPECIFICATION BurstsSpec
PROPERTY BurstsImplementTransfer
