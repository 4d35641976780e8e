\* A descendant that keeps the pipes open: no timeout applies.
CONSTANTS
  Limit = 2
  Marker = 1
  Buffer = 2
  PipeCapacity = 2
  Width = 8
  MaxOutput = 1
  Descendants = TRUE
SPECIFICATION FairSpec
PROPERTIES
  CommandReturns
