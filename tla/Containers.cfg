CONSTANTS
  k1 = k1
  k2 = k2
  k3 = k3
  v0 = v0
  v1 = v1
  Keys = {k1, k2, k3}
  Values = {v0, v1}
  Zero = v0
  NoPair = NoPair
  MaxElements = 2
  ArenaNodes = 4
  RemovesInner = FALSE
  Hashes <- SomeHashes
  PageSize = 13
  HeaderSize = 4
  ElemSize = 1
  MaxBlocks = 2
  MaxAllocations = 10
  MaxHoles = 2
  ArenaSize = 5
  SingleUseArenas = 2
  MaxFrames = 3
  MaxArrays = 2
  Sizes = {5}
  Bounds = {1, 2, 3, 4, 5}
  Patience = {2, 100}
SPECIFICATION PartsSpec
INVARIANT IteratesWhatLives LiveDataIntact FindsLargestClique
PROPERTY MapsAreDictionaries
CHECK_DEADLOCK FALSE
