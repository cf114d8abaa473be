CONSTANTS
  None = None
  HalfWords = 3
  Tags = 4
  Addr <- MCAddr
  Contents <- MCContents
  Tiles <- MCTiles
SPECIFICATION PartsSpec
INVARIANT SendsWhatWasFetched WordsAlwaysTaken
PROPERTY ImplementsStream
