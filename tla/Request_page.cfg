CONSTANTS
  BodyLengths = {0, 1, 3}
  RangeEnds = {0, 1, 3, 4, 8, 14, 17}
  SsizeHalf = 8
  Uint32Size = 6
  StatusLine = 2
  HeaderLength = 4
SPECIFICATION RequestSpec
INVARIANT PageExists
