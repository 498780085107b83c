SPECIFICATION PointerSpec
CONSTANTS
  Word = 8
  BufferSize = 4
  MaxCount = 26
PROPERTIES
  PositionExact
  TornReadHarmless
