CONSTANTS
  Elements <- MCLetters
  Letters <- MCLetters
  Words <- MCWords
  Blank = Blank
  NoString = NoString
  FirstCapacity = 2
  MaxCapacity = 6
  Pieces <- MCPieces
  Needles <- MCNeedles
  Delims <- MCDelims
  Sizes = {0, 1, 3, 6}
  Room = 7
  MaxWanted = 6
  Garbage = 63
  Formats <- MCFormats
  Caps = {0, 4, 8}
  IntBits = 5
  LongBits = 8
  Memory <- MCMemory
  Typed <- MCTyped
SPECIFICATION MCSpec
CHECK_DEADLOCK FALSE
INVARIANTS
  CopiesFit
  PartsWhole
  SearchesAgree
  PrintsWhole
  RoundTrip
PROPERTIES
  KeepsText
